---- MODULE Spec2Model ----
(***************************************************************************)
(* Swappo matchmaking service: the trade-offer handlers of main.py         *)
(* (create, update status, delete), the catalog client of grpc_client.py   *)
(* (tenacity retry around a pybreaker circuit breaker) and the HTTP side   *)
(* effects of http_client.py.                                              *)
(*                                                                         *)
(* Deployment modelled: several worker processes of the service share one  *)
(* database.  Inside one worker a handler runs without interruption        *)
(* between two awaits; across workers the database statements of two       *)
(* handlers interleave.  Circuit breakers are module globals, one set per  *)
(* worker process.                                                         *)
(***************************************************************************)
EXTENDS Integers, Sequences, FiniteSets, TLC

(***************************************************************************)
(* Bounds of the model and program constants.                              *)
(***************************************************************************)
MaxLen == 2          \* longest offered / requested id list of a request
MaxOffers == 1       \* offers ever inserted (ids come from a serial column)
MaxTime == 120       \* the clock stops here (seconds)
TickLen == 60        \* seconds the clock advances in one Tick
MaxCalls == 4        \* requests that use the catalog client, per behaviour
MaxRetryTime == 3    \* the service as a whole: no sleep of an HTTP retry ends
                     \* later (seconds)

FailMax == 5         \* CircuitBreaker(fail_max=5)
ResetTimeout == 60   \* CircuitBreaker(reset_timeout=60)
MaxAttempts == 3     \* stop_after_attempt(3)
WaitMultiplier == 1  \* wait_exponential(multiplier=1, ...)
WaitMin == 1         \* wait_exponential(min=1)
WaitMax == 10        \* wait_exponential(max=10)

Users == {"u1", "u2", "u3"}
Parties == {"u1", "u2"}      \* user ids creation requests name as parties
Items == {1, 2, 3}
Workers == {"w1", "w2"}
Deps == {"catalog", "notification", "chat"}
HttpDeps == {"notification", "chat"}

\* models.py: class TradeOfferStatus
TradeOfferStatus == {"pending", "accepted", "rejected", "cancelled", "completed"}

None == -1           \* Python None for a timestamp

Range(s) == {s[i] : i \in DOMAIN s}

Min2(a, b) == IF a < b THEN a ELSE b
Max2(a, b) == IF a > b THEN a ELSE b

RECURSIVE Pow2(_)
Pow2(n) == IF n <= 0 THEN 1 ELSE 2 * Pow2(n - 1)

\* The seconds a call has slept in its waits.
RECURSIVE Elapsed(_)
Elapsed(waits) ==
    IF waits = <<>> THEN 0 ELSE Head(waits) + Elapsed(Tail(waits))

ItemLists == UNION {[1..n -> Items] : n \in 1..MaxLen}

VARIABLES
    store,       \* trade_offers table: offer id -> row (present rows only)
    nextId,      \* next value of the serial primary key
    now,         \* wall clock, seconds
    breaker,     \* breaker[w][dep]: the circuit breaker of dep in worker w
    req,         \* req[w]: the update / delete request worker w is handling
    lastCreate,  \* the last creation request handled and its result
    blocked,     \* blocked[w]: the synchronous section worker w is in:
                 \* "sleeping" between two attempts of a catalog call
                 \* (time.sleep), "refresh" between db.commit and
                 \* db.refresh of a creation, "idle" otherwise
    rpcFails,    \* rpcFails[w]: catalog RPC invocations of w failed in a row
    httpFails,   \* httpFails[w][dep]: HTTP deliveries of w to dep failed in a
                 \* row (request errors), counted up to FailMax by the
                 \* specifications that count them
    caller,      \* caller[c]: where creation request c of worker w1 is in
                 \* its call of the catalog
    lastGet      \* the last call of CatalogClient.get_item or get_items and
                 \* its result

vars ==
    <<store, nextId, now, breaker, req, lastCreate, blocked, rpcFails,
      httpFails, caller, lastGet>>

(***************************************************************************)
(* pybreaker.CircuitBreaker as configured in grpc_client.py / http_client. *)
(***************************************************************************)
NewBreaker == [state |-> "closed", counter |-> 0, openedAt |-> None]

\* Variant: the failure that opens the breaker is re-raised as it is
\* (throw_new_error_on_trip=False).
BreakerInvokeRaisesOriginal(b, t, outcome) ==
    IF outcome = "ok"
    THEN [b |-> [b EXCEPT !.state = "closed", !.counter = 0],
          invoked |-> TRUE, result |-> "ok"]
    ELSE LET c == b.counter + 1 IN
         IF b.state = "half_open" \/ c >= FailMax
         THEN [b |-> [state |-> "open", counter |-> c, openedAt |-> t],
               invoked |-> TRUE, result |-> outcome]
         ELSE [b |-> [b EXCEPT !.counter = c],
               invoked |-> TRUE, result |-> outcome]

\* Variant: a success leaves the failure counter as it is.
BreakerInvokeNoReset(b, t, outcome) ==
    IF outcome = "ok"
    THEN [b |-> [b EXCEPT !.state = "closed"],
          invoked |-> TRUE, result |-> "ok"]
    ELSE LET c == b.counter + 1 IN
         IF b.state = "half_open" \/ c >= FailMax
         THEN [b |-> [state |-> "open", counter |-> c, openedAt |-> t],
               invoked |-> TRUE, result |-> "circuit_open"]
         ELSE [b |-> [b EXCEPT !.counter = c],
               invoked |-> TRUE, result |-> outcome]

\* Variant: a failed probe reopens the breaker without a new opened_at.
BreakerInvokeKeepsOpenedAt(b, t, outcome) ==
    IF outcome = "ok"
    THEN [b |-> [b EXCEPT !.state = "closed", !.counter = 0],
          invoked |-> TRUE, result |-> "ok"]
    ELSE LET c == b.counter + 1 IN
         IF b.state = "half_open"
         THEN [b |-> [b EXCEPT !.state = "open", !.counter = c],
               invoked |-> TRUE, result |-> "circuit_open"]
         ELSE IF c >= FailMax
         THEN [b |-> [state |-> "open", counter |-> c, openedAt |-> t],
               invoked |-> TRUE, result |-> "circuit_open"]
         ELSE [b |-> [b EXCEPT !.counter = c],
               invoked |-> TRUE, result |-> outcome]

\* One circuit_breaker.call(func): b the breaker, t the time of the call,
\* outcome what func does if it is invoked: "ok", or the exception it raises.
\* result: "ok" | func's exception, re-raised | "circuit_open".
BreakerInvoke(b, t, outcome) ==
    IF outcome = "ok"
    THEN [b |-> [b EXCEPT !.state = "closed", !.counter = 0],
          invoked |-> TRUE, result |-> "ok"]
    ELSE LET c == b.counter + 1 IN
         IF b.state = "half_open" \/ c >= FailMax
         THEN [b |-> [state |-> "open", counter |-> c, openedAt |-> t],
               invoked |-> TRUE, result |-> "circuit_open"]
         ELSE [b |-> [b EXCEPT !.counter = c],
               invoked |-> TRUE, result |-> outcome]

\* Variant: an open breaker lets every call through.
BreakerCallNeverRefuses(b, t, outcome) ==
    IF b.state = "open"
    THEN BreakerInvoke([b EXCEPT !.state = "half_open"], t, outcome)
    ELSE BreakerInvoke(b, t, outcome)

BreakerCall(b, t, outcome) ==
    IF b.state = "open"
    THEN IF b.openedAt # None /\ t < b.openedAt + ResetTimeout
         THEN [b |-> b, invoked |-> FALSE, result |-> "circuit_open"]
         ELSE BreakerInvoke([b EXCEPT !.state = "half_open"], t, outcome)
    ELSE BreakerInvoke(b, t, outcome)

(***************************************************************************)
(* tenacity: wait_exponential(multiplier=1, min=1, max=10) and the retry   *)
(* loop of CatalogClient.validate_items.                                   *)
(***************************************************************************)
\* Variant: the same wait before every attempt.
WaitFixed(attempt) == Max2(0, WaitMin)

\* The number of the last attempt whose wait is computed below.
MaxWaitAttempt == 8

WaitExponential(attempt) ==
    Max2(Max2(0, WaitMin), Min2(WaitMultiplier * Pow2(attempt - 1), WaitMax))

\* grpc.RpcError as the catalog RPC raises it: "error" stands for a transient
\* status (UNAVAILABLE, DEADLINE_EXCEEDED), "invalid_argument" for a status
\* that a repetition of the call does not change.
RpcErrors == {"error", "invalid_argument"}

\* Variant: no exception is retried.
IsRetryableNever(result) == FALSE

\* Variant: every exception is retried, CircuitBreakerError included.
IsRetryableAny(result) == result # "ok"

\* retry_if_exception_type(grpc.RpcError)
IsRetryable(result) == result \in RpcErrors

\* One attempt of validate_items at time t, outcome being what the catalog
\* RPC does if the breaker invokes it.
\* status: "ok" | "circuit_open" (CircuitBreakerError) | "rpc_error" |
\* "retry" (tenacity sleeps for the last of waits, then attempts again).
ValidateAttempt(b, t, outcome, attempt, calls, waits) ==
    LET r == BreakerCall(b, t, outcome)
        n == calls + (IF r.invoked THEN 1 ELSE 0)
    IN  IF r.result = "ok"
        THEN [b |-> r.b, status |-> "ok", calls |-> n,
              attempts |-> attempt, waits |-> waits]
        ELSE IF ~IsRetryable(r.result) \/ attempt >= MaxAttempts
        THEN [b |-> r.b,
              status |-> IF r.result = "circuit_open" THEN "circuit_open"
                         ELSE "rpc_error",
              calls |-> n, attempts |-> attempt, waits |-> waits]
        ELSE [b |-> r.b, status |-> "retry", calls |-> n,
              attempts |-> attempt,
              waits |-> Append(waits, WaitExponential(attempt))]

\* The whole call when no other call uses the breaker meanwhile.
\* outcomes[n]: what the catalog RPC does if attempt n invokes it.
\* t: the time of this attempt; tenacity sleeps (time.sleep) before the next.
RECURSIVE ValidateItemsFrom(_, _, _, _, _, _)
ValidateItemsFrom(b, t, outcomes, attempt, calls, waits) ==
    LET a == ValidateAttempt(b, t, outcomes[attempt], attempt, calls, waits)
    IN  IF a.status # "retry" THEN a
        ELSE ValidateItemsFrom(a.b, t + WaitExponential(attempt), outcomes,
                               attempt + 1, a.calls, a.waits)

\* first: how the first attempt ended.
ValidateItems(b, t, outcomes) ==
    [first |-> BreakerCall(b, t, outcomes[1]).result]
        @@ ValidateItemsFrom(b, t, outcomes, 1, 0, <<>>)

\* What the catalog RPC does when an attempt invokes it.
RpcAnswers == {"ok"} \cup RpcErrors

(***************************************************************************)
(* The catalog's answer: one verdict per entry of response.validations.    *)
(***************************************************************************)
Facts ==
    {[exists |-> FALSE, is_active |-> FALSE, owner_id |-> ""],
     [exists |-> TRUE, is_active |-> FALSE, owner_id |-> "u1"],
     [exists |-> TRUE, is_active |-> TRUE, owner_id |-> "u1"],
     [exists |-> TRUE, is_active |-> TRUE, owner_id |-> "u2"]}

\* grpc_client.py: the list built from response.validations.  world holds
\* the catalog's facts for the ids its answer lists, in the order asked.
Validations(ids, world) ==
    LET Answered(id) == id \in DOMAIN world
        listed == SelectSeq(ids, Answered)
    IN  [i \in DOMAIN listed |->
            [item_id |-> listed[i], exists |-> world[listed[i]].exists,
             is_active |-> world[listed[i]].is_active,
             owner_id |-> world[listed[i]].owner_id]]

(***************************************************************************)
(* create_trade_offer: the checks.                                         *)
(***************************************************************************)
NoDuplicates(s) == Len(s) = Cardinality(Range(s))

\* [v["item_id"] for v in vs]
ItemIds(vs) == [i \in DOMAIN vs |-> vs[i].item_id]

\* Variant: the overlap of the two lists is not checked.
LocalCheckNoOverlap(proposer, receiver, offered, requested) ==
    IF proposer = receiver THEN "self_trade"
    ELSE IF ~NoDuplicates(offered) THEN "dup_offered"
    ELSE IF ~NoDuplicates(requested) THEN "dup_requested"
    ELSE "pass"

\* main.py 183-211: the checks made before the catalog is called
LocalCheck(proposer, receiver, offered, requested) ==
    IF proposer = receiver THEN "self_trade"
    ELSE IF ~NoDuplicates(offered) THEN "dup_offered"
    ELSE IF ~NoDuplicates(requested) THEN "dup_requested"
    ELSE IF Range(offered) \cap Range(requested) # {} THEN "overlap"
    ELSE "pass"

NotExists(v) == ~v.exists
NotActive(v) == ~v.is_active

\* Variant: the owner of the requested items is not checked.
CheckValidationsNoReceiver(proposer, receiver, offered, requested, validations) ==
    LET offeredSet == Range(offered)
        WrongProposer(v) == v.item_id \in offeredSet /\ v.owner_id # proposer
        invalid == ItemIds(SelectSeq(validations, NotExists))
        inactive == ItemIds(SelectSeq(validations, NotActive))
        wrongOffered == ItemIds(SelectSeq(validations, WrongProposer))
    IN  IF invalid # <<>> THEN [code |-> "not_found", ids |-> invalid]
        ELSE IF inactive # <<>> THEN [code |-> "inactive", ids |-> inactive]
        ELSE IF wrongOffered # <<>>
        THEN [code |-> "wrong_owner_proposer", ids |-> wrongOffered]
        ELSE [code |-> "created", ids |-> <<>>]

\* Variant: each failure reports the first offending id only.
CheckValidationsFirstId(proposer, receiver, offered, requested, validations) ==
    LET offeredSet == Range(offered)
        requestedSet == Range(requested)
        WrongProposer(v) == v.item_id \in offeredSet /\ v.owner_id # proposer
        WrongReceiver(v) == v.item_id \in requestedSet /\ v.owner_id # receiver
        invalid == ItemIds(SelectSeq(validations, NotExists))
        inactive == ItemIds(SelectSeq(validations, NotActive))
        wrongOffered == ItemIds(SelectSeq(validations, WrongProposer))
        wrongRequested == ItemIds(SelectSeq(validations, WrongReceiver))
    IN  IF invalid # <<>>
        THEN [code |-> "not_found", ids |-> <<Head(invalid)>>]
        ELSE IF inactive # <<>>
        THEN [code |-> "inactive", ids |-> <<Head(inactive)>>]
        ELSE IF wrongOffered # <<>>
        THEN [code |-> "wrong_owner_proposer", ids |-> <<Head(wrongOffered)>>]
        ELSE IF wrongRequested # <<>>
        THEN [code |-> "wrong_owner_receiver",
              ids |-> <<Head(wrongRequested)>>]
        ELSE [code |-> "created", ids |-> <<>>]

\* main.py 220-262: the checks on the catalog's verdicts, in their order
CheckValidations(proposer, receiver, offered, requested, validations) ==
    LET offeredSet == Range(offered)
        requestedSet == Range(requested)
        WrongProposer(v) == v.item_id \in offeredSet /\ v.owner_id # proposer
        WrongReceiver(v) == v.item_id \in requestedSet /\ v.owner_id # receiver
        invalid == ItemIds(SelectSeq(validations, NotExists))
        inactive == ItemIds(SelectSeq(validations, NotActive))
        wrongOffered == ItemIds(SelectSeq(validations, WrongProposer))
        wrongRequested == ItemIds(SelectSeq(validations, WrongReceiver))
    IN  IF invalid # <<>> THEN [code |-> "not_found", ids |-> invalid]
        ELSE IF inactive # <<>> THEN [code |-> "inactive", ids |-> inactive]
        ELSE IF wrongOffered # <<>>
        THEN [code |-> "wrong_owner_proposer", ids |-> wrongOffered]
        ELSE IF wrongRequested # <<>>
        THEN [code |-> "wrong_owner_receiver", ids |-> wrongRequested]
        ELSE [code |-> "created", ids |-> <<>>]

\* TradeOfferDB(...) as inserted by create_trade_offer
NewOffer(proposer, receiver, offered, requested) ==
    [proposer_id |-> proposer, receiver_id |-> receiver,
     offered_item_ids |-> offered, requested_item_ids |-> requested,
     status |-> "pending", responded_at |-> None]

\* The HTTP status of each result of create_trade_offer
HttpStatus(code) ==
    CASE code = "created" -> 201
      [] code \in {"self_trade", "dup_offered", "dup_requested", "overlap",
                   "inactive"} -> 400
      [] code = "not_found" -> 404
      [] code \in {"wrong_owner_proposer", "wrong_owner_receiver"} -> 403
      [] code \in {"unavailable_circuit_open", "unavailable"} -> 503
      [] code = "unprocessable" -> 422
      [] code = "server_error" -> 500
      [] OTHER -> 0

NoCreate ==
    [worker |-> "", proposer |-> "", receiver |-> "", offered |-> <<>>,
     requested |-> <<>>, rpc |-> "not_called", first |-> "none",
     validations |-> <<>>,
     code |-> "none", http |-> 0, ids |-> <<>>,
     calls |-> 0, attempts |-> 0, waits |-> <<>>, took |-> 0, id |-> 0,
     seq |-> 0]

NoRequest == [pc |-> "idle", code |-> "none"]

\* The worker is in no synchronous section.
Unblocked == [pc |-> "idle"]

\* Creation requests worker w1 has accepted at the same time.
Callers == {"c1", "c2"}

\* n: the requests of the caller so far, counted up to MaxCalls
NoCall == [pc |-> "idle", attempt |-> 0, result |-> "none", n |-> 0]

\* first: the answer of the RPC to the first attempt ("refused" when the
\* breaker did not invoke it)
NoGet ==
    [worker |-> "", op |-> "none", status |-> "not_called",
     first |-> "none", calls |-> 0, attempts |-> 0, waits |-> <<>>,
     took |-> 0, seq |-> 0]

Init ==
    /\ store = <<>>
    /\ nextId = 1
    /\ now = 0
    /\ breaker = [w \in Workers |-> [d \in Deps |-> NewBreaker]]
    /\ req = [w \in Workers |-> NoRequest]
    /\ lastCreate = NoCreate
    /\ blocked = [w \in Workers |-> Unblocked]
    /\ rpcFails = [w \in Workers |-> 0]
    /\ httpFails = [w \in Workers |-> [d \in HttpDeps |-> 0]]
    /\ caller = [c \in Callers |-> NoCall]
    /\ lastGet = NoGet

\* Worker w is not inside a handler's synchronous section: a new handler can
\* start on its event loop.
WorkerFree(w) ==
    /\ req[w].pc \in {"idle", "notify", "chat"}
    /\ blocked[w].pc = "idle"

\* The workers inside time.sleep, between two attempts of a catalog call.
Sleeping == {w \in Workers : blocked[w].pc = "sleeping"}

\* The update requests of w that wait in asyncio.sleep for their next
\* attempt.
HttpWaiting ==
    {w \in Workers : /\ req[w].pc \in {"notify", "chat"}
                     /\ req[w].step = "call"
                     /\ req[w].attempt > 1}

\* The times at which a sleep ends; the event loop of a blocked worker
\* resumes nothing.
Timers ==
    {blocked[w].wake : w \in Sleeping}
        \cup {req[w].wake : w \in {v \in HttpWaiting : blocked[v].pc = "idle"}}

\* No sleep ends before t.
Earliest(t) == \A u \in Timers : t <= u

\* time.sleep of w returns: no other sleeper is due earlier.
Wakes(w) == w \in Sleeping /\ Earliest(blocked[w].wake)


\* Variant: one breaker instance serves every dependency of the worker.
SetBreakerShared(w, dep, b) == [breaker EXCEPT ![w] = [d \in Deps |-> b]]

\* The breakers are module globals, one per dependency: a call through the
\* breaker of dep leaves b as the state of that breaker.
SetBreaker(w, dep, b) == [breaker EXCEPT ![w][dep] = b]

(***************************************************************************)
(* POST /api/v1/offers, handled by worker w.  The handler never awaits     *)
(* (validate_items is synchronous): the worker runs nothing else until it  *)
(* returns.  The other workers are other processes: they act while this    *)
(* one is in time.sleep between two attempts of validate_items, and        *)
(* between its db.commit and its db.refresh.                               *)
(* lastCreate records the last request that was answered or committed and  *)
(* what it returned (took: the seconds from its first attempt to its       *)
(* last); rpcFails counts the catalog RPC invocations of the worker that   *)
(* failed in a row.                                                        *)
(***************************************************************************)
\* main.py 183-211: HTTPException(400) before the catalog client is used
CreateRejectedLocally(w, proposer, receiver, offered, requested, code) ==
    /\ lastCreate' = [NoCreate EXCEPT !.worker = w, !.proposer = proposer,
                         !.receiver = receiver, !.offered = offered,
                         !.requested = requested, !.code = code,
                         !.http = HttpStatus(code),
                         !.seq = lastCreate.seq + 1]
    /\ UNCHANGED <<store, nextId, breaker, rpcFails, blocked>>

\* Variant: an unavailable catalog is taken for a confirmation.
CreateUnavailableInserts(w, proposer, receiver, offered, requested, vi) ==
    /\ lastCreate' = [NoCreate EXCEPT !.worker = w,
                         !.proposer = proposer, !.receiver = receiver,
                         !.offered = offered, !.requested = requested,
                         !.rpc = vi.status, !.first = vi.first,
                         !.code = "committed",
                         !.calls = vi.calls, !.attempts = vi.attempts,
                         !.waits = vi.waits, !.took = vi.took,
                         !.id = nextId,
                         !.seq = lastCreate.seq + 1]
    /\ store' = (nextId :> NewOffer(proposer, receiver, offered, requested))
                @@ store
    /\ nextId' = nextId + 1
    /\ blocked' = [blocked EXCEPT ![w] = [pc |-> "refresh", id |-> nextId]]

\* main.py 265-276: CircuitBreakerError or grpc.RpcError out of validate_items
CreateUnavailable(w, proposer, receiver, offered, requested, vi) ==
    LET code == IF vi.status = "circuit_open"
                THEN "unavailable_circuit_open" ELSE "unavailable"
    IN  /\ lastCreate' = [NoCreate EXCEPT !.worker = w,
                             !.proposer = proposer, !.receiver = receiver,
                             !.offered = offered, !.requested = requested,
                             !.rpc = vi.status, !.first = vi.first,
                             !.code = code,
                             !.http = HttpStatus(code),
                             !.calls = vi.calls, !.attempts = vi.attempts,
                             !.waits = vi.waits, !.took = vi.took,
                             !.seq = lastCreate.seq + 1]
        /\ blocked' = [blocked EXCEPT ![w] = Unblocked]
        /\ UNCHANGED <<store, nextId>>

\* main.py 220-289: the verdicts are checked; the offer is inserted and the
\* insert committed (db.commit).  The response waits for db.refresh.
CreateValidated(w, proposer, receiver, offered, requested, vi, validations) ==
    LET chk == CheckValidations(proposer, receiver, offered, requested,
                                validations)
        created == chk.code = "created"
    IN  /\ lastCreate' = [worker |-> w, proposer |-> proposer,
                          receiver |-> receiver,
                          offered |-> offered, requested |-> requested,
                          rpc |-> vi.status, first |-> vi.first,
                          validations |-> validations,
                          code |-> IF created THEN "committed" ELSE chk.code,
                          http |-> IF created THEN 0 ELSE HttpStatus(chk.code),
                          ids |-> chk.ids, calls |-> vi.calls,
                          attempts |-> vi.attempts, waits |-> vi.waits,
                          took |-> vi.took,
                          id |-> IF created THEN nextId ELSE 0,
                          seq |-> lastCreate.seq + 1]
        /\ IF created
           THEN /\ store' = (nextId :> NewOffer(proposer, receiver, offered,
                                                requested)) @@ store
                /\ nextId' = nextId + 1
                /\ blocked' = [blocked EXCEPT
                                 ![w] = [pc |-> "refresh", id |-> nextId]]
           ELSE /\ blocked' = [blocked EXCEPT ![w] = Unblocked]
                /\ UNCHANGED <<store, nextId>>

\* grpc_client.py 152-197 from main.py 218: one attempt of validate_items by
\* the creation request p of worker w, made at time t.  outcome is what the
\* RPC does if invoked, world the facts it answers with.  A failed attempt
\* that is retried leaves the worker in time.sleep until wake; the attempt
\* that ends the call is followed by the rest of the handler up to
\* db.commit.
CreateAttempt(w, p, t, outcome, world, attempt, calls, waits, first, started) ==
    LET b == breaker[w]["catalog"]
        a == ValidateAttempt(b, t, outcome, attempt, calls, waits)
        vi == [first |-> IF attempt = 1 THEN BreakerCall(b, t, outcome).result
                         ELSE first,
               took |-> t - started] @@ a
    IN  /\ breaker' = SetBreaker(w, "catalog", a.b)
        /\ rpcFails' = [rpcFails EXCEPT ![w] =
                           IF a.status = "ok" THEN 0
                           ELSE @ + (a.calls - calls)]
        /\ IF a.status = "retry"
           THEN /\ blocked' = [blocked EXCEPT ![w] =
                                 [pc |-> "sleeping", op |-> "validate",
                                  request |-> p, attempt |-> attempt + 1,
                                  calls |-> a.calls, waits |-> a.waits,
                                  first |-> vi.first, started |-> started,
                                  wake |-> t + WaitExponential(attempt)]]
                /\ UNCHANGED <<store, nextId, lastCreate>>
           ELSE IF a.status # "ok"
           THEN CreateUnavailable(w, p.proposer, p.receiver, p.offered,
                                  p.requested, vi)
           ELSE CreateValidated(w, p.proposer, p.receiver, p.offered,
                                p.requested, vi,
                                Validations(p.offered \o p.requested, world))

\* The creation requests whose call of the catalog is between two attempts.
Validating == {w \in Sleeping : blocked[w].op = "validate"}

\* main.py 165-289: the handler up to the first attempt of validate_items
\* and, when that attempt ends the call, on to db.commit.
CreateTradeOffer(w, proposer, receiver, offered, requested, outcome, world) ==
    /\ WorkerFree(w)
    /\ nextId <= MaxOffers
    /\ lastCreate.seq + Cardinality(Validating) < MaxCalls
    /\ LET local == LocalCheck(proposer, receiver, offered, requested)
       IN  IF local # "pass"
           THEN CreateRejectedLocally(w, proposer, receiver, offered,
                                      requested, local)
           ELSE CreateAttempt(w, [proposer |-> proposer,
                                  receiver |-> receiver,
                                  offered |-> offered,
                                  requested |-> requested],
                              now, outcome, world, 1, 0, <<>>, "none", now)
    /\ UNCHANGED <<now, lastGet, caller, req, httpFails>>

\* grpc_client.py 152-157: time.sleep of the creation request of w is over
\* and tenacity makes the next attempt; main.py 220-289 follow when that
\* attempt ends the call.
CreateResume(w, outcome, world) ==
    /\ Wakes(w)
    /\ blocked[w].op = "validate"
    /\ LET s == blocked[w]
           t == Max2(now, s.wake)
       IN  /\ now' = t
           /\ CreateAttempt(w, s.request, t, outcome, world, s.attempt,
                            s.calls, s.waits, s.first, s.started)
    /\ UNCHANGED <<lastGet, caller, req, httpFails>>

\* main.py 290: db.refresh(db_offer) reads the committed row in a new
\* transaction.  The row another request has deleted since the commit makes
\* it raise, and the request is answered 500; otherwise 201 with the row.
CreateRefresh(w) ==
    /\ blocked[w].pc = "refresh"
    /\ LET code == IF blocked[w].id \in DOMAIN store
                   THEN "created" ELSE "server_error"
       IN  lastCreate' =
               IF /\ lastCreate.worker = w
                  /\ lastCreate.id = blocked[w].id
                  /\ lastCreate.code = "committed"
               THEN [lastCreate EXCEPT !.code = code,
                                       !.http = HttpStatus(code)]
               ELSE lastCreate
    /\ blocked' = [blocked EXCEPT ![w] = Unblocked]
    /\ UNCHANGED <<store, nextId, now, breaker, req, rpcFails, httpFails,
                   caller, lastGet>>

\* Variant: the id lists of a payload can be empty.
ValidPayloadAny(offered, requested) == TRUE

\* models.py 59-60: TradeOfferCreate, min_items=1 on both id lists
ValidPayload(offered, requested) == Len(offered) >= 1 /\ Len(requested) >= 1

\* The id lists a client can post.
PostedLists == {<<>>} \cup ItemLists

\* POST /api/v1/offers with the payload as posted: FastAPI answers 422 to a
\* payload that is not a TradeOfferCreate and does not call the handler.
CreateRequest(w, proposer, receiver, offered, requested, outcome, world) ==
    IF ValidPayload(offered, requested)
    THEN CreateTradeOffer(w, proposer, receiver, offered, requested,
                          outcome, world)
    ELSE /\ WorkerFree(w)
         /\ lastCreate.seq + Cardinality(Validating) < MaxCalls
         /\ lastCreate' = [NoCreate EXCEPT !.worker = w,
                              !.proposer = proposer, !.receiver = receiver,
                              !.offered = offered, !.requested = requested,
                              !.code = "unprocessable",
                              !.http = HttpStatus("unprocessable"),
                              !.seq = lastCreate.seq + 1]
         /\ UNCHANGED <<lastGet, caller, store, nextId, now, breaker, req,
                        rpcFails, httpFails, blocked>>

\* A creation request with any parties, posted id lists and facts of the
\* catalog, taken as the first request a worker handles.
CreatePosted ==
    /\ lastCreate.code = "none"
    /\ \E proposer \in Parties, receiver \in Parties :
       \E offered \in PostedLists, requested \in PostedLists :
       \E world \in [Items -> Facts] :
           CreateRequest("w1", proposer, receiver, offered, requested,
                         "ok", world)

\* A creation request with any parties, id lists and catalog answer, taken as
\* the first request a freshly started worker handles.
CreateAny ==
    /\ lastCreate.code = "none"
    /\ \E proposer \in Parties, receiver \in Parties :
       \E offered \in ItemLists, requested \in ItemLists :
       \E outcome \in RpcAnswers, world \in [Items -> Facts] :
           CreateTradeOffer("w1", proposer, receiver, offered, requested,
                            outcome, world)

\* The next attempt of a creation request, whatever the catalog does.
ResumeAny ==
    \E w \in Workers, outcome \in RpcAnswers, world \in [Items -> Facts] :
        CreateResume(w, outcome, world)

\* The catalog's facts when item 1 belongs to u1 and item 2 to u2.
GoodWorld ==
    [i \in Items |-> [exists |-> TRUE, is_active |-> TRUE,
                      owner_id |-> IF i = 1 THEN "u1" ELSE "u2"]]

\* The same, with item 2 unknown to the catalog.
MissingWorld ==
    [GoodWorld EXCEPT ![2] = [exists |-> FALSE, is_active |-> FALSE,
                              owner_id |-> ""]]

\* The answers of the catalog: facts for any of the ids, for all or for some.
Answers == UNION {[S -> Facts] : S \in SUBSET Items}

\* A creation request of u1 to u2 with any id lists, the RPC succeeding with
\* any answer of the catalog, taken as the first request of a worker.
CreateAnswered ==
    /\ lastCreate.code = "none"
    /\ \E offered \in ItemLists, requested \in ItemLists, world \in Answers :
           CreateTradeOffer("w1", "u1", "u2", offered, requested, "ok",
                            world)

\* u1 offers item 1 for item 2 of u2, again and again, whatever the catalog
\* RPC does.
CreateSame ==
    \E w \in Workers :
    \E outcome \in RpcAnswers, world \in {GoodWorld, MissingWorld} :
        CreateTradeOffer(w, "u1", "u2", <<1>>, <<2>>, outcome, world)

\* The next attempt of one of these requests.
ResumeSame ==
    \E w \in Workers :
    \E outcome \in RpcAnswers, world \in {GoodWorld, MissingWorld} :
        CreateResume(w, outcome, world)

\* Time passes.  The sleeps between two attempts are shorter than TickLen:
\* the sleepers wake first.
Tick ==
    /\ now + TickLen <= MaxTime
    /\ \A c \in Callers : caller[c].pc # "sleeping"
    /\ Sleeping = {}
    /\ HttpWaiting = {}
    /\ now' = now + TickLen
    /\ UNCHANGED <<lastGet, caller, store, nextId, breaker, req, lastCreate,
                   blocked, rpcFails, httpFails>>

(***************************************************************************)
(* PUT /api/v1/offers/{offer_id}/status, handled by worker w.              *)
(***************************************************************************)
OfferIds == 1..MaxOffers

\* Variant: the two parties are not told apart.
TransitionAnyParty(offer, user_id, new_status) ==
    IF user_id \in {offer.proposer_id, offer.receiver_id}
    THEN IF offer.status = "pending"
            /\ new_status \in {"accepted", "rejected", "cancelled"} THEN "ok"
         ELSE IF offer.status = "accepted" /\ new_status = "completed"
         THEN "ok"
         ELSE "invalid_transition"
    ELSE "unauthorized"

\* Variant: the transition is looked up before the actor is identified.
TransitionTableFirst(offer, user_id, new_status) ==
    IF ~(\/ offer.status = "pending"
            /\ new_status \in {"accepted", "rejected", "cancelled"}
         \/ offer.status = "accepted" /\ new_status = "completed")
    THEN "invalid_transition"
    ELSE IF user_id = offer.proposer_id
    THEN IF new_status \in {"cancelled", "completed"} THEN "ok"
         ELSE "invalid_transition"
    ELSE IF user_id = offer.receiver_id
    THEN IF new_status \in {"accepted", "rejected", "completed"} THEN "ok"
         ELSE "invalid_transition"
    ELSE "unauthorized"

\* main.py 435-479: the permission and transition checks on the row read
Transition(offer, user_id, new_status) ==
    IF user_id = offer.proposer_id
    THEN IF offer.status = "pending" /\ new_status = "cancelled" THEN "ok"
         ELSE IF offer.status = "accepted" /\ new_status = "completed"
         THEN "ok"
         ELSE "invalid_transition"
    ELSE IF user_id = offer.receiver_id
    THEN IF offer.status = "pending"
            /\ new_status \in {"accepted", "rejected"} THEN "ok"
         ELSE IF offer.status = "accepted" /\ new_status = "completed"
         THEN "ok"
         ELSE "invalid_transition"
    ELSE "unauthorized"

\* Variant: every status change stamps responded_at.
UpdatedAlwaysStamps(row, new_status, t) ==
    [row EXCEPT !.status = new_status, !.responded_at = t]

\* Variant: the new status is not written to the row.
UpdatedNotPersisted(row, new_status, t) == row

\* main.py 481-488: the columns the UPDATE statement sets
Updated(row, new_status, t) ==
    [row EXCEPT !.status = new_status,
                !.responded_at = IF new_status \in {"accepted", "rejected"}
                                 THEN t ELSE @]

\* main.py 96-99: the recipient of the notification
Recipient(offer, actor_id) ==
    IF actor_id = offer.receiver_id THEN offer.proposer_id
    ELSE offer.receiver_id

\* main.py 108-126: the notification type of each new status
NotificationType(new_status) ==
    CASE new_status = "accepted" -> "trade_offer_accepted"
      [] new_status = "rejected" -> "trade_offer_rejected"
      [] new_status = "cancelled" -> "trade_offer_cancelled"
      [] new_status = "completed" -> "trade_completed"
      [] OTHER -> "none"

\* main.py 102-126: notification_data
NotificationData(id, offer, new_status, actor_id) ==
    [user_id |-> Recipient(offer, actor_id), related_offer_id |-> id,
     related_user_id |-> actor_id, type |-> NotificationType(new_status)]

\* main.py 73-77: chat_room_data
ChatRoomData(id, offer) ==
    [trade_offer_id |-> id, user1_id |-> offer.proposer_id,
     user2_id |-> offer.receiver_id]

\* main.py 427-433: db.query(...).first(); main.py 488: the handler runs on
\* from the SELECT to db.commit without awaiting, and for the statuses
\* accepted and rejected reads the clock for responded_at on the way
\* (stamp), before the UPDATE is sent.
UpdRead(w, id, user_id, new_status) ==
    /\ req[w].pc = "idle"
    /\ blocked[w].pc = "idle"
    /\ req' = [req EXCEPT ![w] =
                 IF id \in DOMAIN store
                 THEN [pc |-> "commit", id |-> id, user_id |-> user_id,
                       new_status |-> new_status, offer |-> store[id],
                       stamp |-> IF new_status \in {"accepted", "rejected"}
                                 THEN now ELSE None]
                 ELSE [pc |-> "idle", code |-> "not_found"]]
    /\ UNCHANGED <<lastGet, caller, store, nextId, now, breaker, lastCreate, blocked,
                   rpcFails, httpFails>>

\* Variant: the row is written before the request is checked.
UpdCommitWritesFirst(w) ==
    /\ req[w].pc = "commit"
    /\ LET r == req[w]
           code == Transition(r.offer, r.user_id, r.new_status)
       IN  IF r.id \notin DOMAIN store
           THEN /\ req' = [req EXCEPT ![w] =
                             [pc |-> "idle", code |-> "server_error"]]
                /\ UNCHANGED store
           ELSE /\ store' = [store EXCEPT
                               ![r.id] = Updated(@, r.new_status, r.stamp)]
                /\ req' = [req EXCEPT ![w] =
                             IF code # "ok"
                             THEN [pc |-> "idle", code |-> code]
                             ELSE [pc |-> "refresh", id |-> r.id,
                                   user_id |-> r.user_id,
                                   new_status |-> r.new_status,
                                   from |-> r.offer.status]]
    /\ UNCHANGED <<lastGet, caller, nextId, now, breaker, lastCreate, blocked,
                   rpcFails, httpFails>>

\* main.py 435-490: the checks on the row read, then UPDATE and db.commit.
\* responded_at is the clock the handler read (r.stamp), not the time the
\* UPDATE reaches the database.
\* The UPDATE is by primary key and sets only the changed columns; when the
\* row is gone it matches no row and the ORM raises StaleDataError.
UpdCommit(w) ==
    /\ req[w].pc = "commit"
    /\ LET r == req[w]
           code == Transition(r.offer, r.user_id, r.new_status)
       IN  IF code # "ok"
           THEN /\ req' = [req EXCEPT ![w] = [pc |-> "idle", code |-> code]]
                /\ UNCHANGED store
           ELSE IF r.id \notin DOMAIN store
           THEN /\ req' = [req EXCEPT ![w] =
                             [pc |-> "idle", code |-> "server_error"]]
                /\ UNCHANGED store
           ELSE /\ store' = [store EXCEPT
                               ![r.id] = Updated(@, r.new_status, r.stamp)]
                /\ req' = [req EXCEPT ![w] =
                             [pc |-> "refresh", id |-> r.id,
                              user_id |-> r.user_id,
                              new_status |-> r.new_status,
                              from |-> r.offer.status]]
    /\ UNCHANGED <<lastGet, caller, nextId, now, breaker, lastCreate, blocked, rpcFails,
                   httpFails>>

\* main.py 491-494: db.refresh(db_offer) reads the row in a new transaction.
\* The row another request has deleted since the commit makes it raise: the
\* request is answered 500 and no side effect is started.  Otherwise the
\* handler goes on to send_trade_notification with the row as it is now,
\* which builds the notification for the new status (every status a commit
\* can set has one).
UpdRefresh(w) ==
    /\ req[w].pc = "refresh"
    /\ LET r == req[w]
       IN  req' = [req EXCEPT ![w] =
                     IF r.id \notin DOMAIN store
                     THEN [pc |-> "idle", code |-> "server_error",
                           id |-> r.id, new_status |-> r.new_status,
                           at |-> "refresh"]
                     ELSE [pc |-> "notify", id |-> r.id,
                           user_id |-> r.user_id,
                           new_status |-> r.new_status,
                           from |-> r.from,
                           offer |-> store[r.id],
                           data |-> NotificationData(r.id, store[r.id],
                                        r.new_status, r.user_id),
                           attempt |-> 1, sent |-> 0, step |-> "call",
                           wake |-> 0, notified |-> FALSE]]
    /\ UNCHANGED <<lastGet, caller, store, nextId, now, breaker, lastCreate,
                   blocked, rpcFails, httpFails>>

(***************************************************************************)
(* http_client.py: http_post_with_retry, one attempt in three steps.       *)
(* Line 61 hands circuit_breaker.call to the executor and awaits it: the   *)
(* function the breaker calls only builds the request coroutine            *)
(* (client.post is async).  Line 62 awaits that coroutine: the request is  *)
(* sent.  Then the service answers or the request fails.  The event loop   *)
(* of the worker runs other handlers between these steps.  A request error *)
(* is retried after asyncio.sleep of the exponential wait.                 *)
(* req[w].step: "call" (line 61 is next, not before req[w].wake), "post"   *)
(* (line 62 is next), "answer" (the request is in flight).                 *)
(***************************************************************************)
HttpOutcomes == {"status_201", "status_other", "request_error"}

\* http_client.py 111-113: "status_201" is a 201 whose body is a JSON
\* document, which response.json() returns; the body of "status_201_no_json"
\* is none, and response.json() raises.
ChatOutcomes == HttpOutcomes \cup {"status_201_no_json"}

\* http_client.py 54-61: the breaker call of an attempt.  built: the request
\* coroutine was built and returned; result "circuit_open" when the breaker
\* refused.
HttpPostAttempt(b, t) ==
    LET r == BreakerCall(b, t, "ok")
    IN  [b |-> r.b, built |-> r.result = "ok", result |-> r.result]

\* Variant: the attempts are not counted.
RetriedWithoutStop(result, attempt) == result = "request_error"

\* tenacity: is the attempt retried
Retried(result, attempt) == result = "request_error" /\ attempt < MaxAttempts

\* Deliveries to a dependency that failed in a row, after one more attempt.
FailsAfter(n, outcome) ==
    IF outcome = "request_error" THEN Min2(n + 1, FailMax) ELSE 0

\* main.py 73-82, 494-498: the chat-room call of the request begins
ChatBegins(r, notified) ==
    [pc |-> "chat", id |-> r.id, user_id |-> r.user_id,
     new_status |-> r.new_status, from |-> r.from, offer |-> r.offer,
     data |-> ChatRoomData(r.id, r.offer),
     attempt |-> 1, sent |-> 0, step |-> "call", wake |-> 0,
     notified |-> notified]

\* main.py 500: the handler returns the offer
UpdateReturns(r, notified, chat_room) ==
    [pc |-> "idle", code |-> "ok", id |-> r.id, new_status |-> r.new_status,
     notified |-> notified, chat_room |-> chat_room]

\* Variant: a notification that was not delivered fails the request.
AfterNotifyPropagates(r, notified) ==
    IF ~notified THEN [pc |-> "idle", code |-> "server_error"]
    ELSE IF r.new_status = "accepted" THEN ChatBegins(r, notified)
    ELSE UpdateReturns(r, notified, "not_requested")

\* main.py 493-500: what follows the notification
AfterNotify(r, notified) ==
    IF r.new_status = "accepted" THEN ChatBegins(r, notified)
    ELSE UpdateReturns(r, notified, "not_requested")

\* What follows the chat-room call; created: create_chat_room_resilient
\* returned the JSON document of the answer, not None.
AfterChat(r, created) ==
    UpdateReturns(r, r.notified, IF created THEN "created" ELSE "failed")

\* http_client.py 61: an attempt of worker w to dep enters the breaker of
\* dep, when asyncio.sleep of tenacity is over if it is a retry.  A refusal
\* of the breaker (CircuitBreakerError) is not retried and ends the call.
HttpCall(w, dep, after) ==
    /\ blocked[w].pc = "idle"
    /\ req[w].step = "call"
    /\ req[w].attempt > 1 => Earliest(req[w].wake)
    /\ LET r == req[w]
           t == IF r.attempt > 1 THEN Max2(now, r.wake) ELSE now
           a == HttpPostAttempt(breaker[w][dep], t)
       IN  /\ now' = t
           /\ breaker' = SetBreaker(w, dep, a.b)
           /\ req' = [req EXCEPT ![w] =
                        IF a.built THEN [r EXCEPT !.step = "post"]
                        ELSE after]
    /\ UNCHANGED <<lastGet, caller, store, nextId, lastCreate, blocked,
                   rpcFails, httpFails>>

\* http_client.py 62: the coroutine the breaker returned is awaited: the
\* request is sent.
HttpSend(w) ==
    /\ blocked[w].pc = "idle"
    /\ req[w].step = "post"
    /\ req' = [req EXCEPT ![w] = [@ EXCEPT !.step = "answer",
                                           !.sent = @ + 1]]
    /\ UNCHANGED <<lastGet, caller, store, nextId, now, breaker, lastCreate,
                   blocked, rpcFails, httpFails>>

\* http_client.py 25-30, 62: the service answers the request in flight, or
\* the request fails; tenacity retries a request error up to the third
\* attempt, after asyncio.sleep of the wait.
HttpAnswer(w, outcome, after) ==
    /\ blocked[w].pc = "idle"
    /\ req[w].step = "answer"
    /\ LET r == req[w]
       IN  req' = [req EXCEPT ![w] =
                     IF Retried(outcome, r.attempt)
                     THEN [r EXCEPT !.attempt = @ + 1, !.step = "call",
                                    !.wake = now + WaitExponential(r.attempt)]
                     ELSE after]
    /\ UNCHANGED <<lastGet, caller, store, nextId, now, breaker, lastCreate,
                   blocked, rpcFails>>

\* send_notification_resilient: an attempt enters the breaker
NotifyCall(w) ==
    /\ req[w].pc = "notify"
    /\ HttpCall(w, "notification", AfterNotify(req[w], FALSE))

\* send_notification_resilient: the request of the attempt is sent
NotifySend(w) == req[w].pc = "notify" /\ HttpSend(w)

\* http_client.py 81-91: the attempt in flight ends; 201 is True, any other
\* answer and any exception False
NotifyAnswer(w, outcome) ==
    /\ req[w].pc = "notify"
    /\ outcome \in HttpOutcomes
    /\ HttpAnswer(w, outcome, AfterNotify(req[w], outcome = "status_201"))

\* create_chat_room_resilient: an attempt enters the breaker
ChatCall(w) ==
    /\ req[w].pc = "chat"
    /\ HttpCall(w, "chat", AfterChat(req[w], FALSE))

\* create_chat_room_resilient: the request of the attempt is sent
ChatSend(w) == req[w].pc = "chat" /\ HttpSend(w)

\* http_client.py 111-120: the attempt in flight ends; a 201 with a JSON
\* body returns the document, any other answer and any exception (the one
\* of response.json() included) None
ChatAnswer(w, outcome) ==
    /\ req[w].pc = "chat"
    /\ outcome \in ChatOutcomes
    /\ HttpAnswer(w, outcome, AfterChat(req[w], outcome = "status_201"))

\* httpFails is a history variable: the specifications whose claims count
\* the failed deliveries record them, the others leave it alone.
Counted(w, outcome) ==
    LET dep == IF req[w].pc = "notify" THEN "notification" ELSE "chat"
    IN  httpFails' = [httpFails EXCEPT ![w][dep] = FailsAfter(@, outcome)]

(***************************************************************************)
(* DELETE /api/v1/offers/{offer_id}, handled by worker w.                  *)
(***************************************************************************)
\* Variant: the status of the offer is not checked.
DeleteCheckAnyStatus(offer, user_id) ==
    IF user_id # offer.proposer_id THEN "unauthorized" ELSE "deleted"

\* main.py 536-548: the checks on the row read
DeleteCheck(offer, user_id) ==
    IF user_id # offer.proposer_id THEN "unauthorized"
    ELSE IF offer.status # "pending" THEN "invalid_state"
    ELSE "deleted"

\* DELETE ... WHERE id = :id
Without(f, id) == [k \in DOMAIN f \ {id} |-> f[k]]

\* main.py 528-534
DelRead(w, id, user_id) ==
    /\ req[w].pc = "idle"
    /\ blocked[w].pc = "idle"
    /\ req' = [req EXCEPT ![w] =
                 IF id \in DOMAIN store
                 THEN [pc |-> "delete", id |-> id, user_id |-> user_id,
                       offer |-> store[id]]
                 ELSE [pc |-> "idle", code |-> "not_found"]]
    /\ UNCHANGED <<lastGet, caller, store, nextId, now, breaker, lastCreate, blocked,
                   rpcFails, httpFails>>

\* main.py 536-553
DelCommit(w) ==
    /\ req[w].pc = "delete"
    /\ LET r == req[w]
           code == DeleteCheck(r.offer, r.user_id)
       IN  /\ req' = [req EXCEPT ![w] = [pc |-> "idle", code |-> code]]
           /\ store' = IF code = "deleted" THEN Without(store, r.id)
                       ELSE store
    /\ UNCHANGED <<lastGet, caller, nextId, now, breaker, lastCreate, blocked, rpcFails,
                   httpFails>>


\* A healthy catalog that confirms the request: the store gets its offers.
CreateGood ==
    \E w \in Workers :
        CreateTradeOffer(w, "u1", "u2", <<1>>, <<2>>, "ok", GoodWorld)

Refresh == \E w \in Workers : CreateRefresh(w)

Update ==
    \E w \in Workers, id \in OfferIds, u \in Users, s \in TradeOfferStatus :
        UpdRead(w, id, u, s)

Commit == \E w \in Workers : UpdCommit(w)

Reload == \E w \in Workers : UpdRefresh(w)

NotifyBegin == \E w \in Workers : NotifyCall(w)

Notify == \E w \in Workers : NotifySend(w)

\* The requests that fail and are retried fail early enough for the sleep
\* to end by MaxRetryTime.
InTime(w, o) ==
    Retried(o, req[w].attempt) =>
        now + WaitExponential(req[w].attempt) <= MaxRetryTime

NotifyEnd ==
    \E w \in Workers, o \in HttpOutcomes :
        NotifyAnswer(w, o) /\ InTime(w, o) /\ UNCHANGED httpFails

ChatBegin == \E w \in Workers : ChatCall(w)

Chat == \E w \in Workers : ChatSend(w)

ChatEnd ==
    \E w \in Workers, o \in ChatOutcomes :
        ChatAnswer(w, o) /\ InTime(w, o) /\ UNCHANGED httpFails

\* The same answers at any time.
NotifyEndAny ==
    \E w \in Workers, o \in HttpOutcomes :
        NotifyAnswer(w, o) /\ UNCHANGED httpFails

ChatEndAny ==
    \E w \in Workers, o \in ChatOutcomes :
        ChatAnswer(w, o) /\ UNCHANGED httpFails

\* The same answers at any time, the failed deliveries counted.
NotifyEndCounted ==
    \E w \in Workers, o \in HttpOutcomes :
        NotifyAnswer(w, o) /\ Counted(w, o)

ChatEndCounted ==
    \E w \in Workers, o \in ChatOutcomes :
        ChatAnswer(w, o) /\ Counted(w, o)

Delete == \E w \in Workers, id \in OfferIds, u \in Users : DelRead(w, id, u)

DeleteCommit == \E w \in Workers : DelCommit(w)

\* The handlers of the lifecycle read the clock for responded_at only: one
\* advance of the clock tells an earlier time from a later one.
ClockStep == now < TickLen /\ Tick

\* The service: offers are created, updated and deleted by requests that
\* the workers handle concurrently.
Next ==
    \/ CreateGood
    \/ Refresh
    \/ Update
    \/ Commit
    \/ Reload
    \/ NotifyBegin
    \/ Notify
    \/ NotifyEnd
    \/ ChatBegin
    \/ Chat
    \/ ChatEnd
    \/ Delete
    \/ DeleteCommit
    \/ ClockStep

Spec == Init /\ [][Next]_vars

\* One creation request, all inputs.
NextValidate == CreateAny \/ ResumeAny \/ Refresh \/ Tick

SpecValidate == Init /\ [][NextValidate]_vars

\* Repeated creation requests against an unreliable catalog.
NextCreate == CreateSame \/ ResumeSame \/ Refresh \/ Tick

SpecCreate == Init /\ [][NextCreate]_vars

\* Any status update and any deletion, handled by worker w1.
AnyUpdate ==
    \E id \in OfferIds, u \in Users, s \in TradeOfferStatus :
        UpdRead("w1", id, u, s)

AnyDelete == \E id \in OfferIds, u \in Users : DelRead("w1", id, u)

\* The receiver answers the offer; worker w1 handles the request.
Respond ==
    \E id \in OfferIds, s \in {"accepted", "rejected"} :
        UpdRead("w1", id, "u2", s)

\* The resilient calls together: creation against an unreliable catalog, then
\* the receiver's answer with its notification and chat-room calls.
NextCalls ==
    \/ CreateSame
    \/ ResumeSame
    \/ Refresh
    \/ Respond
    \/ Commit
    \/ Reload
    \/ NotifyBegin
    \/ Notify
    \/ NotifyEndAny
    \/ ChatBegin
    \/ Chat
    \/ ChatEndAny
    \/ Tick

SpecCalls == Init /\ [][NextCalls]_vars

\* http_client.py 15-22: the HTTP breakers are module globals.  No handler
\* of the service fails a call through them (the function they call only
\* builds the request), but pybreaker opens a breaker for whoever calls its
\* open(): the state and the time are set, the counter is left alone.
OpenedBreaker == [state |-> "open", counter |-> 0, openedAt |-> 0]

\* The service after construction, n and c being the breakers of the
\* notification and of the chat dependency in every worker.
InitWith(n, c) ==
    /\ store = <<>>
    /\ nextId = 1
    /\ now = 0
    /\ breaker = [w \in Workers |->
                    [d \in Deps |-> IF d = "notification" THEN n
                                    ELSE IF d = "chat" THEN c
                                    ELSE NewBreaker]]
    /\ req = [w \in Workers |-> NoRequest]
    /\ lastCreate = NoCreate
    /\ blocked = [w \in Workers |-> Unblocked]
    /\ rpcFails = [w \in Workers |-> 0]
    /\ httpFails = [w \in Workers |-> [d \in HttpDeps |-> 0]]
    /\ caller = [c2 \in Callers |-> NoCall]
    /\ lastGet = NoGet

\* The HTTP breakers as they were built, or both opened at time 0.
InitOpened ==
    \/ InitWith(NewBreaker, NewBreaker)
    \/ InitWith(OpenedBreaker, OpenedBreaker)

\* The service, its HTTP breakers open or closed at the start.
SpecOpened == InitOpened /\ [][Next]_vars

\* The HTTP breakers as they were built, or the notification breaker
\* opened at time 0.
InitNotificationOpened ==
    \/ InitWith(NewBreaker, NewBreaker)
    \/ InitWith(OpenedBreaker, NewBreaker)

\* The resilient calls, the notification breaker open or closed at the
\* start.
SpecCallsOpened == InitNotificationOpened /\ [][NextCalls]_vars

\* The updates of an offer by one worker, the failed deliveries counted.
NextDeliveries ==
    \/ CreateGood
    \/ Refresh
    \/ AnyUpdate
    \/ Commit
    \/ Reload
    \/ NotifyBegin
    \/ Notify
    \/ NotifyEndCounted
    \/ ChatBegin
    \/ Chat
    \/ ChatEndCounted

SpecDeliveries == Init /\ [][NextDeliveries]_vars

\* One creation, the catalog answering for all or for some of the ids.
NextAnswer == CreateAnswered \/ Refresh \/ Tick

SpecAnswer == Init /\ [][NextAnswer]_vars

\* The process of worker w stops while the handler waits for a side effect
\* (after db.commit, main.py 490): the request is gone, and the worker that
\* starts in its place has new breakers.  The store is another process.
Stop(w) ==
    /\ req[w].pc \in {"refresh", "notify", "chat"}
    /\ req' = [req EXCEPT ![w] =
                 [pc |-> "idle", code |-> "stopped", id |-> req[w].id,
                  new_status |-> req[w].new_status, at |-> req[w].pc,
                  sent |-> IF req[w].pc = "refresh" THEN 0
                           ELSE req[w].sent]]
    /\ breaker' = [breaker EXCEPT ![w] = [d \in Deps |-> NewBreaker]]
    /\ rpcFails' = [rpcFails EXCEPT ![w] = 0]
    /\ httpFails' = [httpFails EXCEPT ![w] = [d \in HttpDeps |-> 0]]
    /\ blocked' = [blocked EXCEPT ![w] = Unblocked]
    /\ UNCHANGED <<lastGet, caller, store, nextId, now, lastCreate>>

Crash == \E w \in Workers : Stop(w)

\* The service, with workers that can stop at any of the side effects of
\* an update.
NextStop == Next \/ Crash

SpecStop == Init /\ [][NextStop]_vars

\* The rows of the store: any offer that can be created, then any updates
\* and deletions of it.
NextStore ==
    \/ CreatePosted
    \/ Refresh
    \/ AnyUpdate
    \/ Commit
    \/ Reload
    \/ NotifyBegin
    \/ Notify
    \/ NotifyEnd
    \/ ChatBegin
    \/ Chat
    \/ ChatEnd
    \/ AnyDelete
    \/ DeleteCommit
    \/ ClockStep

SpecStore == Init /\ [][NextStore]_vars

(***************************************************************************)
(* The call of the catalog step by step, for the creation requests that    *)
(* worker w1 has accepted at the same time.  pc of a caller: "idle", then  *)
(* "waiting" (the handler is scheduled), "invoking" (the RPC is in flight  *)
(* inside catalog_circuit_breaker.call), "sleeping" (tenacity waits before *)
(* the next attempt).                                                      *)
(***************************************************************************)
\* Variant: a handler can start while another one is in its catalog call.
LoopFreeAlways(c) == TRUE

\* create_trade_offer is a coroutine that never yields and validate_items
\* blocks (the RPC and time.sleep of the retry): the event loop of the worker
\* starts the handler of c only when no other handler is inside its call.
\* pybreaker's call also holds the breaker's lock while the RPC runs.
LoopFree(c) ==
    \A d \in Callers \ {c} : caller[d].pc \notin {"invoking", "sleeping"}

\* Variant: an open breaker refuses whatever the time.
BreakerEnterNeverProbes(b, t) == [b |-> b, admitted |-> b.state # "open"]

\* pybreaker call(), before func is invoked: an open breaker refuses until
\* reset_timeout has passed and then turns half-open.
BreakerEnter(b, t) ==
    IF b.state = "open"
    THEN IF b.openedAt # None /\ t < b.openedAt + ResetTimeout
         THEN [b |-> b, admitted |-> FALSE]
         ELSE [b |-> [b EXCEPT !.state = "half_open"], admitted |-> TRUE]
    ELSE [b |-> b, admitted |-> TRUE]

\* One attempt of c enters the breaker.
Admit(c, attempt, t) ==
    LET e == BreakerEnter(breaker["w1"]["catalog"], t)
    IN  /\ breaker' = SetBreaker("w1", "catalog", e.b)
        /\ caller' = [caller EXCEPT ![c] =
                        IF e.admitted
                        THEN [pc |-> "invoking", attempt |-> attempt,
                              result |-> "none", n |-> caller[c].n]
                        ELSE [pc |-> "idle", attempt |-> attempt,
                              result |-> "circuit_open", n |-> caller[c].n]]

\* The server accepts creation request c.
CallArrive(c) ==
    /\ caller[c].pc = "idle"
    /\ caller' = [caller EXCEPT ![c] =
                     [pc |-> "waiting", attempt |-> 0, result |-> "none",
                      n |-> Min2(caller[c].n + 1, MaxCalls)]]
    /\ UNCHANGED <<lastGet, store, nextId, now, breaker, req, lastCreate, blocked,
                   rpcFails, httpFails>>

\* The handler of c runs up to the first attempt of validate_items.
CallEnter(c) ==
    /\ caller[c].pc = "waiting"
    /\ LoopFree(c)
    /\ Admit(c, 1, now)
    /\ UNCHANGED <<lastGet, store, nextId, now, req, lastCreate, blocked, rpcFails,
                   httpFails>>

\* The RPC of c returns or raises; tenacity decides on another attempt.
CallReturn(c, outcome) ==
    /\ caller[c].pc = "invoking"
    /\ LET r == BreakerInvoke(breaker["w1"]["catalog"], now, outcome)
           a == caller[c].attempt
       IN  /\ breaker' = SetBreaker("w1", "catalog", r.b)
           /\ rpcFails' = [rpcFails EXCEPT !["w1"] =
                              IF outcome = "ok" THEN 0 ELSE @ + 1]
           /\ caller' = [caller EXCEPT ![c] =
                           IF IsRetryable(r.result) /\ a < MaxAttempts
                           THEN [pc |-> "sleeping", attempt |-> a,
                                 result |-> r.result, n |-> caller[c].n]
                           ELSE [pc |-> "idle", attempt |-> a,
                                 result |-> r.result, n |-> caller[c].n]]
    /\ UNCHANGED <<lastGet, store, nextId, now, req, lastCreate, blocked, httpFails>>

\* time.sleep of tenacity is over: the next attempt of c enters the breaker.
CallResume(c) ==
    /\ caller[c].pc = "sleeping"
    /\ now' = now + WaitExponential(caller[c].attempt)
    /\ Admit(c, caller[c].attempt + 1, now')
    /\ UNCHANGED <<lastGet, store, nextId, req, lastCreate, blocked, rpcFails,
                   httpFails>>

Arrive == \E c \in Callers : caller[c].n < MaxCalls /\ CallArrive(c)

Enter == \E c \in Callers : CallEnter(c)

Return == \E c \in Callers, o \in {"ok"} \cup RpcErrors : CallReturn(c, o)

Resume == \E c \in Callers : CallResume(c)

NextProbe ==
    \/ Arrive
    \/ Enter
    \/ Return
    \/ Resume
    \/ Tick

SpecProbe == Init /\ [][NextProbe]_vars

\* The same calls as the worker schedules them: a handler that can start
\* does start, the attempt after a wait is made, and time passes.  The RPC
\* is invoked without a deadline (self.stub.ValidateItems(request) has no
\* timeout argument), so nothing makes an invocation return.
SpecNoDeadline ==
    /\ Init
    /\ [][NextProbe]_vars
    /\ WF_vars(Enter)
    /\ WF_vars(Resume)
    /\ WF_vars(Tick)

\* The catalog fails as it likes before this time and answers every RPC
\* from then on.
RecoveredAt == TickLen

ReturnRecovering ==
    \E c \in Callers :
    \E o \in (IF now < RecoveredAt THEN {"ok"} \cup RpcErrors ELSE {"ok"}) :
        CallReturn(c, o)

\* Requests arrive without end once the catalog has recovered.
ArriveRecovering ==
    \E c \in Callers :
        (caller[c].n < MaxCalls \/ now >= RecoveredAt) /\ CallArrive(c)

NextRecover ==
    \/ ArriveRecovering
    \/ Enter
    \/ ReturnRecovering
    \/ Resume
    \/ Tick

\* Requests keep arriving, the worker runs their handlers, the catalog
\* answers each RPC, and time passes.
SpecRecover ==
    /\ Init
    /\ [][NextRecover]_vars
    /\ WF_vars(ArriveRecovering)
    /\ WF_vars(Enter)
    /\ WF_vars(ReturnRecovering)
    /\ WF_vars(Resume)
    /\ WF_vars(Tick)

(***************************************************************************)
(* CatalogClient.get_item and get_items, called by worker w.  They share   *)
(* the catalog breaker and the retry policy with validate_items.           *)
(***************************************************************************)
\* What the GetItem RPC does when an attempt invokes it; "not_found" is the
\* grpc.RpcError with status NOT_FOUND.
GetAnswers == {"ok", "not_found", "error"}

\* One attempt of get_item at time t.
\* status: "item" (the dictionary is returned) | "none" (None is returned) |
\* "circuit_open" (CircuitBreakerError) | "rpc_error" | "retry" (tenacity
\* sleeps for the last of waits, then attempts again).
GetAttempt(b, t, outcome, attempt, calls, waits) ==
    LET r == BreakerCall(b, t, outcome)
        n == calls + (IF r.invoked THEN 1 ELSE 0)
    IN  IF r.result = "ok"
        THEN [b |-> r.b, status |-> "item", calls |-> n,
              attempts |-> attempt, waits |-> waits]
        ELSE IF r.result = "not_found"
        THEN [b |-> r.b, status |-> "none", calls |-> n,
              attempts |-> attempt, waits |-> waits]
        ELSE IF ~IsRetryable(r.result) \/ attempt >= MaxAttempts
        THEN [b |-> r.b,
              status |-> IF r.result = "circuit_open" THEN "circuit_open"
                         ELSE "rpc_error",
              calls |-> n, attempts |-> attempt, waits |-> waits]
        ELSE [b |-> r.b, status |-> "retry", calls |-> n,
              attempts |-> attempt,
              waits |-> Append(waits, WaitExponential(attempt))]

\* The whole call when no other call uses the breaker meanwhile.
\* outcomes[n]: what the GetItem RPC does if attempt n invokes it.
RECURSIVE GetItemFrom(_, _, _, _, _, _)
GetItemFrom(b, t, outcomes, attempt, calls, waits) ==
    LET a == GetAttempt(b, t, outcomes[attempt], attempt, calls, waits)
    IN  IF a.status # "retry" THEN a
        ELSE GetItemFrom(a.b, t + WaitExponential(attempt), outcomes,
                         attempt + 1, a.calls, a.waits)

\* grpc_client.py 108-150: one attempt of get_items at time t.  Every
\* grpc.RpcError is raised again, NOT_FOUND included, and tenacity retries
\* it.
\* status: "items" (the dictionary of items and not_found_ids is returned) |
\* "circuit_open" | "rpc_error" | "retry".
GetItemsAttempt(b, t, outcome, attempt, calls, waits) ==
    LET r == BreakerCall(b, t, outcome)
        n == calls + (IF r.invoked THEN 1 ELSE 0)
    IN  IF r.result = "ok"
        THEN [b |-> r.b, status |-> "items", calls |-> n,
              attempts |-> attempt, waits |-> waits]
        ELSE IF r.result = "circuit_open" \/ attempt >= MaxAttempts
        THEN [b |-> r.b,
              status |-> IF r.result = "circuit_open" THEN "circuit_open"
                         ELSE "rpc_error",
              calls |-> n, attempts |-> attempt, waits |-> waits]
        ELSE [b |-> r.b, status |-> "retry", calls |-> n,
              attempts |-> attempt,
              waits |-> Append(waits, WaitExponential(attempt))]

\* The lookups.
GetOps == {"get", "get_items"}

\* The lookups that are between two attempts.
Getting == {w \in Sleeping : blocked[w].op \in GetOps}

\* grpc_client.py 65-150: one attempt of the lookup op of worker w, made at
\* time t.  A failed attempt that is retried leaves the worker in
\* time.sleep until wake.
GetStep(w, op, t, outcome, attempt, calls, waits, first, started) ==
    LET b == breaker[w]["catalog"]
        a == IF op = "get"
             THEN GetAttempt(b, t, outcome, attempt, calls, waits)
             ELSE GetItemsAttempt(b, t, outcome, attempt, calls, waits)
        f == IF attempt > 1 THEN first
             ELSE IF BreakerCall(b, t, outcome).invoked THEN outcome
             ELSE "refused"
    IN  /\ breaker' = SetBreaker(w, "catalog", a.b)
        /\ rpcFails' = [rpcFails EXCEPT ![w] =
                           IF a.status \in {"item", "items"} THEN 0
                           ELSE @ + (a.calls - calls)]
        /\ IF a.status = "retry"
           THEN /\ blocked' = [blocked EXCEPT ![w] =
                                 [pc |-> "sleeping", op |-> op,
                                  attempt |-> attempt + 1,
                                  calls |-> a.calls, waits |-> a.waits,
                                  first |-> f, started |-> started,
                                  wake |-> t + WaitExponential(attempt)]]
                /\ UNCHANGED lastGet
           ELSE /\ lastGet' = [worker |-> w, op |-> op,
                               status |-> a.status,
                               first |-> f, calls |-> a.calls,
                               attempts |-> a.attempts, waits |-> a.waits,
                               took |-> t - started,
                               seq |-> lastGet.seq + 1]
                /\ blocked' = [blocked EXCEPT ![w] = Unblocked]

\* get_item is called: its first attempt.
GetItem(w, outcome) ==
    /\ WorkerFree(w)
    /\ lastGet.seq + Cardinality(Getting) < MaxCalls
    /\ GetStep(w, "get", now, outcome, 1, 0, <<>>, "none", now)
    /\ UNCHANGED <<store, nextId, now, req, lastCreate, httpFails, caller>>

\* get_items is called: its first attempt.
GetItems(w, outcome) ==
    /\ WorkerFree(w)
    /\ lastGet.seq + Cardinality(Getting) < MaxCalls
    /\ GetStep(w, "get_items", now, outcome, 1, 0, <<>>, "none", now)
    /\ UNCHANGED <<store, nextId, now, req, lastCreate, httpFails, caller>>

\* grpc_client.py 65-70, 108-113: time.sleep of the lookup is over and
\* tenacity makes the next attempt.
GetResume(w, outcome) ==
    /\ Wakes(w)
    /\ blocked[w].op \in GetOps
    /\ LET s == blocked[w]
           t == Max2(now, s.wake)
       IN  /\ now' = t
           /\ GetStep(w, s.op, t, outcome, s.attempt, s.calls, s.waits,
                      s.first, s.started)
    /\ UNCHANGED <<store, nextId, req, lastCreate, httpFails, caller>>

\* Lookups of items, whatever the catalog answers.
GetAny == \E w \in Workers, outcome \in GetAnswers : GetItem(w, outcome)

\* Batch lookups, whatever the catalog answers.
GetItemsAny == \E w \in Workers, outcome \in GetAnswers : GetItems(w, outcome)

\* The next attempt of a lookup.
ResumeGet == \E w \in Workers, outcome \in GetAnswers : GetResume(w, outcome)

NextGet == GetAny \/ GetItemsAny \/ ResumeGet \/ Tick

SpecGet == Init /\ [][NextGet]_vars

(***************************************************************************)
(* Properties.                                                             *)
(***************************************************************************)
Role(offer, user_id) ==
    IF user_id = offer.proposer_id THEN "proposer"
    ELSE IF user_id = offer.receiver_id THEN "receiver"
    ELSE "other"

\* The transition table of the specification.
Allowed(s, a, t) ==
    \/ s = "pending" /\ t = "cancelled" /\ a = "proposer"
    \/ s = "pending" /\ t \in {"accepted", "rejected"} /\ a = "receiver"
    \/ s = "accepted" /\ t = "completed" /\ a \in {"proposer", "receiver"}

\* Worker w takes the check-and-commit step of its update request.
CommitStep(w) == req[w].pc = "commit" /\ req'[w] # req[w]

\* Worker w takes the reload step (db.refresh) of its update request.
ReloadStep(w) == req[w].pc = "refresh" /\ req'[w] # req[w]

\* The row the request of w read is still the row of the store.
ReadIsCurrent(w) ==
    /\ req[w].id \in DOMAIN store
    /\ store[req[w].id] = req[w].offer

\* C1: a status update evaluated against the stored status s, by actor a, for
\* target t commits t exactly when (s, a, t) is in the transition table;
\* any other triple is rejected as invalid transition or unauthorized and
\* leaves the store as it was.
C1_TransitionTable ==
    [][\A w \in Workers :
        (CommitStep(w) /\ ReadIsCurrent(w)) =>
            LET r == req[w]
                o == store[r.id]
            IN  IF Allowed(o.status, Role(o, r.user_id), r.new_status)
                THEN /\ req'[w].pc = "refresh"
                     /\ req'[w].new_status = r.new_status
                     /\ store'[r.id].status = r.new_status
                ELSE /\ req'[w].pc = "idle"
                     /\ req'[w].code \in {"invalid_transition", "unauthorized"}
                     /\ store' = store]_vars

\* The receiver accepted a pending offer and the store holds the new status.
C1_Witness ==
    \E w \in Workers :
        /\ req[w].pc = "notify"
        /\ req[w].from = "pending"
        /\ req[w].new_status = "accepted"
        /\ req[w].user_id = req[w].offer.receiver_id
        /\ req[w].id \in DOMAIN store
        /\ store[req[w].id].status = "accepted"

\* Worker w committed a transition and has not returned yet.
Committed(w) == req[w].pc \in {"refresh", "notify", "chat"}

\* C2: two status updates of one offer whose steps interleave never both
\* commit from the same current status.
C2_RacingUpdatesSerialized ==
    \A w1, w2 \in Workers :
        (w1 # w2 /\ Committed(w1) /\ Committed(w2)
            /\ req[w1].id = req[w2].id)
        => req[w1].from # req[w2].from

\* Worker w takes a step of a side effect (notification or chat room).
SideEffectStep(w) == req[w].pc \in {"notify", "chat"} /\ req'[w] # req[w]

\* The dependency of the side effect the request of w is in.
DepOf(w) == IF req[w].pc = "notify" THEN "notification" ELSE "chat"

\* The breaker of dependency d of w is open and its reset timeout is not
\* over.
Refusing(w, d) ==
    /\ breaker[w][d].state = "open"
    /\ breaker[w][d].openedAt # None
    /\ now < breaker[w][d].openedAt + ResetTimeout

\* C3: whatever the notification and chat-room calls do, on any attempt,
\* and whether their breakers are closed or open, the update request
\* returns success for the status it committed and the store is not touched
\* by the side effects; a call the open breaker refuses is over at once.
C3_SideEffectsNeverRevert ==
    [][\A w \in Workers :
        SideEffectStep(w) =>
            /\ store' = store
            /\ \/ /\ Committed(w)'
                  /\ req'[w].id = req[w].id
                  /\ req'[w].new_status = req[w].new_status
               \/ /\ req'[w].pc = "idle"
                  /\ req'[w].code = "ok"
                  /\ req'[w].id = req[w].id
                  /\ req'[w].new_status = req[w].new_status
            /\ (req[w].step = "call" /\ req[w].attempt = 1
                  /\ Refusing(w, DepOf(w))) =>
                  /\ req'[w].pc # req[w].pc
                  /\ req[w].sent = 0
                  /\ breaker' = breaker]_vars

\* An accept returned success although the open breakers refused both the
\* notification and the chat-room call; the store still says accepted.
C3_Witness ==
    \E w \in Workers :
        /\ req[w].pc = "idle"
        /\ req[w].code = "ok"
        /\ req[w].new_status = "accepted"
        /\ ~req[w].notified
        /\ req[w].chat_room = "failed"
        /\ Refusing(w, "notification")
        /\ Refusing(w, "chat")
        /\ req[w].id \in DOMAIN store
        /\ store[req[w].id].status = "accepted"

\* The verdict the catalog gave for an id of the request.
Verdict(c, id) == CHOOSE v \in Range(c.validations) : v.item_id = id

\* Every item of the request exists, is active and has the expected owner.
AllItemsValid(c) ==
    \A id \in Range(c.offered) \cup Range(c.requested) :
        LET v == Verdict(c, id)
        IN  /\ v.exists
            /\ v.is_active
            /\ id \in Range(c.offered) => v.owner_id = c.proposer
            /\ id \in Range(c.requested) => v.owner_id = c.receiver

\* C4: when the local checks pass and the catalog answers, the offer is
\* created (201, row inserted as pending) if and only if every item exists,
\* is active and is owned by the expected party.
C4_CreatedIffItemsValid ==
    LET c == lastCreate
    IN  c.rpc = "ok" =>
            IF AllItemsValid(c)
            THEN /\ c.code \in {"committed", "created"}
                 /\ c.code = "created" <=> c.http = 201
                 /\ store = (1 :> [proposer_id |-> c.proposer,
                                   receiver_id |-> c.receiver,
                                   offered_item_ids |-> c.offered,
                                   requested_item_ids |-> c.requested,
                                   status |-> "pending",
                                   responded_at |-> None])
            ELSE /\ c.code \notin {"committed", "created"}
                 /\ c.http # 201
                 /\ store = <<>>

\* Two offered items for one requested item, all valid: created.
C4_Witness ==
    /\ lastCreate.code = "created"
    /\ Len(lastCreate.offered) = 2
    /\ 1 \in DOMAIN store

\* The catalog breaker of w is open and its reset timeout has not elapsed.
CatalogOpen(w) ==
    /\ breaker[w]["catalog"].state = "open"
    /\ now < breaker[w]["catalog"].openedAt + ResetTimeout

\* C5: once FailMax catalog RPC invocations of a worker have failed in a row
\* its catalog breaker is open; while it is open and the reset timeout has
\* not elapsed, a creation request fails with the circuit-open error, the
\* RPC is not invoked and the breaker does not change.
C5_CatalogBreakerOpens ==
    [][\A w \in Workers :
        /\ rpcFails'[w] >= FailMax => breaker'[w]["catalog"].state = "open"
        /\ CatalogOpen(w) =>
              /\ breaker'[w]["catalog"] = breaker[w]["catalog"]
              /\ rpcFails'[w] = rpcFails[w]
              /\ (lastCreate' # lastCreate /\ lastCreate'.worker = w
                    /\ lastCreate'.rpc # "not_called")
                 => /\ lastCreate'.code = "unavailable_circuit_open"
                    /\ lastCreate'.http = 503
                    /\ lastCreate'.calls = 0]_vars

\* Five invocations failed in a row and a later request was refused by the
\* open breaker without an invocation.
C5_Witness ==
    \E w \in Workers :
        /\ rpcFails[w] >= FailMax
        /\ CatalogOpen(w)
        /\ lastCreate.worker = w
        /\ lastCreate.code = "unavailable_circuit_open"
        /\ lastCreate.calls = 0

ValidationErrors ==
    {"not_found", "inactive", "wrong_owner_proposer", "wrong_owner_receiver"}

\* C6: when validate_items ends with the breaker open or with its last
\* attempt failed, the creation request is answered 503, which none of the
\* four validation errors is, and no offer is inserted.
C6_UnavailableRejects ==
    [][/\ (lastCreate' # lastCreate
            /\ lastCreate'.rpc \in {"circuit_open", "rpc_error"})
          => /\ lastCreate'.http = 503
             /\ lastCreate'.code \notin
                   ValidationErrors \cup {"committed", "created"}
             /\ \A e \in ValidationErrors : HttpStatus(e) # 503
             /\ store' = store
             /\ nextId' = nextId
       /\ store' # store => lastCreate'.rpc = "ok"]_vars

\* Three attempts invoked the RPC and failed; nothing was stored.
C6_Witness ==
    /\ lastCreate.rpc = "rpc_error"
    /\ lastCreate.calls = MaxAttempts
    /\ lastCreate.http = 503
    /\ store = <<>>

\* Worker w takes the check-and-delete step of its delete request.
DeleteStep(w) == req[w].pc = "delete" /\ req'[w] # req[w]

\* C7: a delete request removes the offer exactly when the actor is the
\* proposer and the status is pending; another actor is rejected as
\* unauthorized whatever the status, the proposer of a non-pending offer as
\* invalid state, a missing offer as not found, and a rejected request
\* leaves the store as it was.
C7_DeleteRules ==
    [][\A w \in Workers :
        /\ (DeleteStep(w) /\ ReadIsCurrent(w)) =>
              LET r == req[w]
                  o == store[r.id]
              IN  IF r.user_id # o.proposer_id
                  THEN req'[w].code = "unauthorized" /\ store' = store
                  ELSE IF o.status # "pending"
                  THEN req'[w].code = "invalid_state" /\ store' = store
                  ELSE /\ req'[w].code = "deleted"
                       /\ r.id \notin DOMAIN store'
        /\ (req[w].pc = "idle" /\ req'[w] # req[w]
              /\ req'[w].pc = "idle")
           => req'[w].code = "not_found" /\ store' = store]_vars

\* The proposer deleted the pending offer.
C7_Witness ==
    \E w \in Workers :
        /\ req[w].pc = "idle"
        /\ req[w].code = "deleted"
        /\ nextId > 1
        /\ store = <<>>

\* C8: responded_at is unset while the offer is pending, is set by the
\* step from pending to accepted or rejected (to the time the request that
\* commits read from the clock), and keeps its value in the step from
\* accepted to completed.
C8_RespondedAt ==
    [][\A id \in DOMAIN store' :
        /\ store'[id].status = "pending" => store'[id].responded_at = None
        /\ id \in DOMAIN store =>
              /\ (store[id].status = "pending"
                    /\ store'[id].status \in {"accepted", "rejected"})
                 => \E w \in Workers :
                        /\ req[w].pc = "commit"
                        /\ req'[w] # req[w]
                        /\ req[w].id = id
                        /\ req[w].stamp \in 0..now
                        /\ store'[id].responded_at = req[w].stamp
              /\ (store[id].status = "accepted"
                    /\ store'[id].status = "completed")
                 => store'[id].responded_at = store[id].responded_at]_vars

\* An offer accepted earlier was completed later and kept the earlier stamp.
C8_Witness ==
    \E id \in DOMAIN store :
        /\ store[id].status = "completed"
        /\ store[id].responded_at # None
        /\ store[id].responded_at < now

HasDuplicate(s) == \E i, j \in DOMAIN s : i < j /\ s[i] = s[j]

Malformed(c) ==
    \/ c.proposer = c.receiver
    \/ HasDuplicate(c.offered)
    \/ HasDuplicate(c.requested)
    \/ \E i \in DOMAIN c.offered, j \in DOMAIN c.requested :
          c.offered[i] = c.requested[j]

\* C9: a creation request that names one user as both parties, repeats an id
\* inside a list or names an id in both lists is rejected (400) with the
\* catalog never called: no RPC invoked, the breaker untouched, nothing
\* stored.
C9_RejectedBeforeCatalog ==
    (lastCreate.code # "none" /\ Malformed(lastCreate)) =>
        /\ lastCreate.http = 400
        /\ lastCreate.rpc = "not_called"
        /\ lastCreate.calls = 0
        /\ lastCreate.attempts = 0
        /\ breaker[lastCreate.worker]["catalog"] = NewBreaker
        /\ rpcFails[lastCreate.worker] = 0
        /\ store = <<>>

\* An id named in both lists (and nothing else wrong) was rejected.
C9_Witness ==
    /\ lastCreate.code = "overlap"
    /\ lastCreate.proposer # lastCreate.receiver
    /\ lastCreate.calls = 0

\* The ids of the answer whose verdict satisfies a test.
NotFoundIds(c) == {v.item_id : v \in {x \in Range(c.validations) : ~x.exists}}
InactiveIds(c) ==
    {v.item_id : v \in {x \in Range(c.validations) : ~x.is_active}}
WrongProposerIds(c) ==
    {id \in Range(c.offered) : Verdict(c, id).owner_id # c.proposer}
WrongReceiverIds(c) ==
    {id \in Range(c.requested) : Verdict(c, id).owner_id # c.receiver}

Reports(c, code, http, ids) ==
    /\ c.code = code
    /\ c.http = http
    /\ Range(c.ids) = ids
    /\ Len(c.ids) = Cardinality(ids)

\* C10: a failed validation reports the first violated category in the
\* order not found, inactive, wrong owner of an offered item, wrong owner of
\* a requested item, with exactly the ids that violate that category.
C10_FirstCategoryAllIds ==
    LET c == lastCreate
    IN  c.rpc = "ok" =>
            IF NotFoundIds(c) # {}
            THEN Reports(c, "not_found", 404, NotFoundIds(c))
            ELSE IF InactiveIds(c) # {}
            THEN Reports(c, "inactive", 400, InactiveIds(c))
            ELSE IF WrongProposerIds(c) # {}
            THEN Reports(c, "wrong_owner_proposer", 403, WrongProposerIds(c))
            ELSE IF WrongReceiverIds(c) # {}
            THEN Reports(c, "wrong_owner_receiver", 403, WrongReceiverIds(c))
            ELSE c.code \in {"committed", "created"}

\* Both offered items have the wrong owner and so has the requested one:
\* the two offered ids are reported.
C10_Witness ==
    /\ lastCreate.code = "wrong_owner_proposer"
    /\ Len(lastCreate.ids) = 2
    /\ WrongReceiverIds(lastCreate) # {}

\* The call of the catalog by a creation request of worker w returns in
\* this step, with the answer or an error.
CatalogCall(w) ==
    /\ lastCreate'.seq = lastCreate.seq + 1
    /\ lastCreate'.worker = w
    /\ lastCreate'.rpc # "not_called"

\* A creation request of worker w makes an attempt of its catalog call in
\* this step: the first one, or the next one after time.sleep.
AttemptStep(w) ==
    \/ blocked[w].pc = "idle" /\ CatalogCall(w)
    \/ blocked[w].pc = "idle" /\ blocked'[w].pc = "sleeping"
    \/ blocked[w].pc = "sleeping" /\ blocked'[w] # blocked[w]

\* The invocations of the RPC by the call of w before and after the step.
CallsBefore(w) == IF blocked[w].pc = "sleeping" THEN blocked[w].calls ELSE 0

CallsAfter(w) ==
    IF blocked'[w].pc = "sleeping" THEN blocked'[w].calls
    ELSE lastCreate'.calls

\* C11: one resilient call invokes its remote operation at most MaxAttempts
\* times: validate_items invokes the RPC at most three times and surfaces
\* the error of the third failed attempt; a notification or chat-room post
\* sends at most three requests, request n in the step of attempt n that
\* awaits the coroutine and in no other step, and the call ends with the
\* answer to its third attempt whatever that answer is.
C11_AtMostThreeAttempts ==
    [][/\ \A w \in Workers :
            CatalogCall(w) =>
                /\ lastCreate'.calls <= MaxAttempts
                /\ lastCreate'.attempts <= MaxAttempts
                /\ lastCreate'.rpc = "rpc_error" =>
                      /\ lastCreate'.attempts = MaxAttempts
                      /\ lastCreate'.http = 503
       /\ \A w \in Workers :
            SideEffectStep(w) =>
                /\ req[w].attempt <= MaxAttempts
                /\ req[w].sent <= req[w].attempt
                /\ (req[w].attempt = MaxAttempts /\ req[w].step = "answer")
                      => req'[w].pc # req[w].pc
                /\ req'[w].pc = req[w].pc =>
                      \/ /\ req[w].step = "call" /\ req'[w].step = "post"
                         /\ req'[w].attempt = req[w].attempt
                         /\ req'[w].sent = req[w].sent
                      \/ /\ req[w].step = "post" /\ req'[w].step = "answer"
                         /\ req'[w].attempt = req[w].attempt
                         /\ req'[w].sent = req[w].sent + 1
                         /\ req'[w].sent = req[w].attempt
                      \/ /\ req[w].step = "answer" /\ req'[w].step = "call"
                         /\ req'[w].attempt = req[w].attempt + 1
                         /\ req'[w].sent = req[w].sent]_vars

\* The catalog answered at the third invocation, the notification was not
\* delivered and the third chat-room post is in flight, two seconds after
\* the second.
C11_Witness ==
    \E w \in Workers :
        /\ lastCreate.code = "created"
        /\ lastCreate.calls = MaxAttempts
        /\ req[w].pc = "chat"
        /\ ~req[w].notified
        /\ req[w].attempt = MaxAttempts
        /\ req[w].step = "answer"
        /\ req[w].sent = MaxAttempts
        /\ now = req[w].wake

\* C12: an attempt refused by an open breaker ends the call at once: the
\* call fails with the circuit-open error, no wait and no attempt follow the
\* refused attempt, and the refused attempt does not invoke the operation.
C12_CircuitOpenNotRetried ==
    [][/\ \A w \in Workers :
            CatalogCall(w) =>
                /\ CatalogOpen(w) =>
                      /\ lastCreate'.rpc = "circuit_open"
                      /\ lastCreate'.attempts = 1
                      /\ lastCreate'.calls = 0
                      /\ lastCreate'.waits = <<>>
                /\ lastCreate'.rpc = "circuit_open" =>
                      Len(lastCreate'.waits) = lastCreate'.attempts - 1
       /\ \A n \in 1..MaxAttempts : ~Retried("circuit_open", n)]_vars

\* A request was refused by the open breaker at its first attempt.
C12_Witness ==
    \E w \in Workers :
        /\ CatalogOpen(w)
        /\ lastCreate.worker = w
        /\ lastCreate.rpc = "circuit_open"
        /\ lastCreate.attempts = 1
        /\ lastCreate.waits = <<>>
        /\ lastCreate.calls = 0

\* The RPC fails at the first two attempts and answers at the third.
FailFailOk == [n \in 1..MaxAttempts |-> IF n < MaxAttempts THEN "error" ELSE "ok"]

\* What validate_items of worker w would do now if the RPC did FailFailOk.
TwoFailuresThenOk(w) == ValidateItems(breaker[w]["catalog"], now, FailFailOk)

\* The breaker of w is closed and two more failures do not open it.
RoomForTwoFailures(w) ==
    /\ breaker[w]["catalog"].state = "closed"
    /\ breaker[w]["catalog"].counter + (MaxAttempts - 1) < FailMax

\* C13: when the catalog breaker is closed and two more failures leave it
\* closed, a validate_items call whose RPC fails at the first two attempts
\* and answers at the third returns the answer, with the RPC invoked
\* exactly three times.
C13_ThirdAttemptSucceeds ==
    \A w \in Workers :
        RoomForTwoFailures(w) =>
            /\ TwoFailuresThenOk(w).status = "ok"
            /\ TwoFailuresThenOk(w).calls = MaxAttempts
            /\ TwoFailuresThenOk(w).attempts = MaxAttempts

\* C13 as stated: in every state of the breaker, two failures followed by an
\* answer give success after exactly three invocations.
C13_AlwaysThirdAttemptSucceeds ==
    \A w \in Workers :
        /\ TwoFailuresThenOk(w).status = "ok"
        /\ TwoFailuresThenOk(w).calls = MaxAttempts

\* A creation request was answered at the third invocation, after the waits
\* of the two retries.
C13_Witness ==
    /\ lastCreate.rpc = "ok"
    /\ lastCreate.calls = MaxAttempts
    /\ lastCreate.attempts = MaxAttempts
    /\ lastCreate.waits = <<WaitExponential(1), WaitExponential(2)>>
    /\ breaker[lastCreate.worker]["catalog"].state = "closed"
    /\ breaker[lastCreate.worker]["catalog"].counter = 0

\* The catalog breaker of w is open and its reset timeout has elapsed.
ProbeDue(w) ==
    /\ breaker[w]["catalog"].state = "open"
    /\ now >= breaker[w]["catalog"].openedAt + ResetTimeout

\* C14: the first call after the reset timeout of an open breaker invokes
\* the operation (the probe).  A probe that succeeds closes the breaker with
\* the counter at 0; a probe that fails is the only invocation of the call
\* and leaves the breaker open with opened_at at the time of the probe, so
\* that calls are refused without invocation for another full timeout.
C14_ProbeAfterTimeout ==
    [][\A w \in Workers :
        CatalogCall(w) =>
            /\ ProbeDue(w) =>
                  /\ lastCreate'.calls >= 1
                  /\ IF lastCreate'.rpc = "ok"
                     THEN /\ breaker'[w]["catalog"].state = "closed"
                          /\ breaker'[w]["catalog"].counter = 0
                     ELSE /\ lastCreate'.rpc = "circuit_open"
                          /\ lastCreate'.calls = 1
                          /\ breaker'[w]["catalog"].state = "open"
                          /\ breaker'[w]["catalog"].openedAt = now
                          /\ breaker'[w]["catalog"].openedAt
                                 > breaker[w]["catalog"].openedAt
            /\ (breaker[w]["catalog"].state = "open" /\ ~ProbeDue(w)) =>
                  /\ lastCreate'.calls = 0
                  /\ breaker'[w]["catalog"] = breaker[w]["catalog"]]_vars

\* A probe failed after the first timeout and the next request was refused
\* without an invocation.
C14_Witness ==
    \E w \in Workers :
        /\ breaker[w]["catalog"].state = "open"
        /\ breaker[w]["catalog"].openedAt >= ResetTimeout
        /\ now < breaker[w]["catalog"].openedAt + ResetTimeout
        /\ lastCreate.worker = w
        /\ lastCreate.rpc = "circuit_open"
        /\ lastCreate.calls = 0

\* The user of the update request of w is no party of the offer it read.
ThirdParty(w) ==
    req[w].user_id \notin {req[w].offer.proposer_id, req[w].offer.receiver_id}

\* C15: a status update by a user who is neither the proposer nor the
\* receiver is rejected as unauthorized, never as an invalid transition,
\* whatever the status of the offer and the status asked for, and the store
\* is left as it was.
C15_ThirdPartyUnauthorized ==
    [][\A w \in Workers :
        (CommitStep(w) /\ ThirdParty(w)) =>
            /\ req'[w].pc = "idle"
            /\ req'[w].code = "unauthorized"
            /\ store' = store]_vars

\* A third user asks to complete an accepted offer: the one transition both
\* parties are allowed.
C15_Witness ==
    \E w \in Workers :
        /\ req[w].pc = "commit"
        /\ ThirdParty(w)
        /\ req[w].id \in DOMAIN store
        /\ store[req[w].id].status = "accepted"
        /\ req[w].new_status = "completed"

\* Worker w takes a step of its call to the HTTP dependency dep.
HttpStep(w, dep) ==
    /\ req[w].pc = (IF dep = "notification" THEN "notify" ELSE "chat")
    /\ req'[w] # req[w]

\* C16: each dependency has its own breaker.  A creation request changes no
\* breaker but the catalog breaker of its worker, a notification or
\* chat-room attempt none but the breaker of its own dependency, in the
\* step that calls it; an attempt whose own breaker is closed is let
\* through whatever the other breakers are, and an attempt whose own
\* breaker refuses is not.
C16_BreakersIndependent ==
    [][\A w \in Workers :
        /\ \A d \in Deps :
              breaker'[w][d] # breaker[w][d] =>
                  IF d = "catalog" THEN AttemptStep(w)
                  ELSE HttpStep(w, d) /\ req[w].step = "call"
        /\ (AttemptStep(w) /\ breaker[w]["catalog"].state = "closed") =>
              CallsAfter(w) = CallsBefore(w) + 1
        /\ \A d \in HttpDeps :
              /\ (HttpStep(w, d) /\ req[w].step = "call"
                    /\ breaker[w][d].state = "closed") =>
                    /\ req'[w].pc = req[w].pc
                    /\ req'[w].step = "post"
              /\ (HttpStep(w, d) /\ req[w].step = "call"
                    /\ req[w].attempt = 1 /\ Refusing(w, d)) =>
                    req'[w].pc # req[w].pc]_vars

\* The catalog breaker of the worker opened while its notification breaker
\* was open, and with both open the worker created a chat room through the
\* untouched chat breaker.
C16_Witness ==
    \E w \in Workers :
        /\ CatalogOpen(w)
        /\ Refusing(w, "notification")
        /\ req[w].pc = "idle"
        /\ req[w].code = "ok"
        /\ ~req[w].notified
        /\ req[w].chat_room = "created"
        /\ breaker[w]["chat"] = NewBreaker

\* The notification call of w returns (delivered or not).
NotifyDone(w) == req[w].pc = "notify" /\ req'[w].pc # "notify"

\* C17: a chat room is requested for (offer id, proposer, receiver) exactly
\* for the transitions committed with status accepted: a request that
\* committed accepted returns only from its chat-room call, the call is
\* made once the notification call has returned, delivered or not, and no
\* other request makes it.
C17_ChatIffAccepted ==
    [][\A w \in Workers :
        /\ (Committed(w) /\ req[w].new_status = "accepted"
              /\ req'[w].pc = "idle") => req[w].pc = "chat"
        /\ NotifyDone(w) =>
              IF req[w].new_status = "accepted"
              THEN /\ req'[w].pc = "chat"
                   /\ req'[w].attempt = 1
                   /\ req'[w].data =
                         [trade_offer_id |-> req[w].id,
                          user1_id |-> req[w].offer.proposer_id,
                          user2_id |-> req[w].offer.receiver_id]
              ELSE /\ req'[w].pc = "idle"
                   /\ req'[w].chat_room = "not_requested"
        /\ (req'[w].pc = "chat" /\ req[w].pc # "chat") =>
              /\ NotifyDone(w)
              /\ req[w].new_status = "accepted"]_vars

\* The notification type the specification fixes for a target status.
TypeOf(t) ==
    IF t = "accepted" THEN "trade_offer_accepted"
    ELSE IF t = "rejected" THEN "trade_offer_rejected"
    ELSE IF t = "cancelled" THEN "trade_offer_cancelled"
    ELSE "trade_completed"

\* C18: every request that has committed a transition starts exactly one
\* notification call, in the step that follows the commit; the notification
\* goes to the party that did not act and has the type of the new status;
\* the retries of the call send the same notification.
C18_NotificationToOtherParty ==
    [][\A w \in Workers :
        /\ (CommitStep(w) /\ req'[w].pc # "idle") => req'[w].pc = "refresh"
        /\ ReloadStep(w) =>
              /\ req'[w].pc = "notify"
              /\ req'[w].attempt = 1
              /\ req'[w].sent = 0
              /\ req'[w].step = "call"
              /\ req'[w].data.user_id # req[w].user_id
              /\ req'[w].data.user_id =
                    (IF req[w].user_id = req'[w].offer.proposer_id
                     THEN req'[w].offer.receiver_id
                     ELSE req'[w].offer.proposer_id)
              /\ req'[w].data.type = TypeOf(req[w].new_status)
              /\ req'[w].data.related_offer_id = req[w].id
              /\ req'[w].data.related_user_id = req[w].user_id
        /\ (req'[w].pc = "notify" /\ req[w].pc # "notify") => ReloadStep(w)
        /\ (req'[w].pc = "notify" /\ req[w].pc = "notify") =>
              req'[w].data = req[w].data]_vars

\* The edges of the lifecycle.
Edge(s, t) ==
    \/ s = "pending" /\ t \in {"accepted", "rejected", "cancelled"}
    \/ s = "accepted" /\ t = "completed"

\* C19: the stored status of an offer changes only along the edges of the
\* lifecycle, also when requests on the offer interleave; a rejected,
\* cancelled or completed offer keeps its status.
C19_StatusFollowsEdges ==
    [][\A id \in DOMAIN store \cap DOMAIN store' :
        store'[id].status # store[id].status =>
            Edge(store[id].status, store'[id].status)]_vars

\* C20: once FailMax deliveries of a worker to the notification or chat
\* service have failed in a row the breaker of that service is open, and an
\* attempt made while it is open sends no request.
C20_HttpBreakerOpens ==
    [][\A w \in Workers, d \in HttpDeps :
        /\ httpFails'[w][d] >= FailMax => breaker'[w][d].state = "open"
        /\ (httpFails[w][d] >= FailMax /\ HttpStep(w, d)) =>
              httpFails'[w][d] = httpFails[w][d]]_vars

\* C21: when a delete and a status update of one offer interleave, an offer
\* is removed only while its stored status is pending, and no notification
\* or chat-room attempt is made for an offer that is no longer stored.
C21_DeleteUpdateRace ==
    [][/\ \A id \in DOMAIN store :
            id \notin DOMAIN store' => store[id].status = "pending"
       /\ \A w \in Workers :
            SideEffectStep(w) => req[w].id \in DOMAIN store]_vars

\* C27: responded_at of an offer is written at most once, also when accept
\* and reject requests on the pending offer interleave: a stored value is
\* never replaced.
C27_RespondedAtWrittenOnce ==
    [][\A id \in DOMAIN store \cap DOMAIN store' :
        store[id].responded_at # None =>
            store'[id].responded_at = store[id].responded_at]_vars

\* C28: every transition that leaves pending (to accepted, rejected or
\* cancelled) leaves the offer with responded_at stamped.
C28_LeavingPendingStamps ==
    [][\A id \in DOMAIN store \cap DOMAIN store' :
        (store[id].status = "pending" /\ store'[id].status # "pending") =>
            store'[id].responded_at # None]_vars

\* The catalog breaker of w opens in this step.
Trips(w) ==
    /\ AttemptStep(w)
    /\ breaker[w]["catalog"].state = "closed"
    /\ breaker'[w]["catalog"].state = "open"

\* C23: every attempt goes through the breaker.  When the failure of an
\* attempt of validate_items opens the breaker, that invocation is the last
\* of the call: the call ends with the circuit-open error (503, nothing
\* stored), no attempt follows, and the RPC was invoked fewer than three
\* times.
C23_TripEndsTheCall ==
    [][\A w \in Workers :
        Trips(w) =>
            /\ CatalogCall(w)
            /\ blocked'[w].pc = "idle"
            /\ lastCreate'.rpc = "circuit_open"
            /\ lastCreate'.http = 503
            /\ store' = store
            /\ lastCreate'.attempts = lastCreate'.calls
            /\ lastCreate'.calls = CallsBefore(w) + 1
            /\ breaker[w]["catalog"].counter = FailMax - 1
            /\ lastCreate'.calls < MaxAttempts]_vars

\* The second failure of a call was the fifth in a row: the call ended there.
C23_Witness ==
    \E w \in Workers :
        /\ lastCreate.worker = w
        /\ lastCreate.rpc = "circuit_open"
        /\ lastCreate.calls = 2
        /\ lastCreate.attempts = 2
        /\ lastCreate.waits = <<WaitExponential(1)>>
        /\ breaker[w]["catalog"].state = "open"
        /\ breaker[w]["catalog"].counter = FailMax
        /\ breaker[w]["catalog"].openedAt = now

\* C24: a non-transient error of the catalog is not retried: when the first
\* attempt of validate_items ends with such an error, the call fails with
\* the RPC invoked exactly once.
C24_NonTransientNotRetried ==
    lastCreate.first = "invalid_argument" =>
        /\ lastCreate.calls = 1
        /\ lastCreate.attempts = 1
        /\ lastCreate.rpc = "rpc_error"

\* C29: a closed breaker counts the failures since the last success: the
\* counter of a closed catalog breaker equals the number of invocations
\* that failed in a row and lies between 0 and FailMax - 1, a call that
\* succeeds leaves it at 0, and the breaker opens only when FailMax
\* invocations failed in a row.
C29_ClosedCounter ==
    [][\A w \in Workers :
        /\ breaker'[w]["catalog"].state = "closed" =>
              /\ breaker'[w]["catalog"].counter \in 0..(FailMax - 1)
              /\ breaker'[w]["catalog"].counter = rpcFails'[w]
        /\ (CatalogCall(w) /\ lastCreate'.rpc = "ok") =>
              /\ breaker'[w]["catalog"].state = "closed"
              /\ breaker'[w]["catalog"].counter = 0
        /\ Trips(w) => rpcFails'[w] = FailMax]_vars

\* A call succeeded at its third attempt, after two failures: the breaker is
\* closed with the counter back at 0, while another worker's closed breaker
\* still counts three failures.
C29_Witness ==
    \E w \in Workers :
        /\ lastCreate.worker = w
        /\ lastCreate.rpc = "ok"
        /\ lastCreate.calls = MaxAttempts
        /\ breaker[w]["catalog"].state = "closed"
        /\ breaker[w]["catalog"].counter = 0
        /\ breaker[w]["catalog"].openedAt = None
        /\ \E v \in Workers \ {w} : breaker[v]["catalog"].counter = 3

\* C25: an offer is created only when the catalog's answer holds a verdict
\* for every offered and every requested id.
C25_VerdictForEveryId ==
    lastCreate.code \in {"committed", "created"} =>
        \A id \in Range(lastCreate.offered) \cup Range(lastCreate.requested) :
            \E v \in Range(lastCreate.validations) : v.item_id = id

\* The process of w stops in this step.
StopStep(w) == Committed(w) /\ req'[w].pc = "idle" /\ req'[w].code = "stopped"

\* The process of w stopped before the side effects of the transition of
\* offer id to s were finished.
Stopped(w, id, s) ==
    /\ req[w].pc = "idle"
    /\ req[w].code = "stopped"
    /\ req[w].id = id
    /\ req[w].new_status = s

RowOk(row) ==
    /\ row.proposer_id # row.receiver_id
    /\ row.offered_item_ids # <<>>
    /\ row.requested_item_ids # <<>>
    /\ ~HasDuplicate(row.offered_item_ids)
    /\ ~HasDuplicate(row.requested_item_ids)
    /\ Range(row.offered_item_ids) \cap Range(row.requested_item_ids) = {}
    /\ row.status \in TradeOfferStatus

\* C30: after any sequence of creation, update and deletion requests every
\* stored offer has two different parties, non-empty duplicate-free id lists
\* that are disjoint, and one of the five statuses; a new offer is pending
\* with responded_at unset; no step changes the parties or the id lists of
\* a stored offer.
C30_StoreRows ==
    [][/\ \A id \in DOMAIN store' : RowOk(store'[id])
       /\ \A id \in DOMAIN store' \ DOMAIN store :
             /\ store'[id].status = "pending"
             /\ store'[id].responded_at = None
       /\ \A id \in DOMAIN store' \cap DOMAIN store :
             /\ store'[id].proposer_id = store[id].proposer_id
             /\ store'[id].receiver_id = store[id].receiver_id
             /\ store'[id].offered_item_ids = store[id].offered_item_ids
             /\ store'[id].requested_item_ids = store[id].requested_item_ids]_vars

\* An offer of two items for one went from pending to accepted to completed.
C30_Witness ==
    \E id \in DOMAIN store :
        /\ Len(store[id].offered_item_ids) = 2
        /\ store[id].status = "completed"
        /\ store[id].responded_at # None
        /\ lastCreate.id = id
        /\ lastCreate.offered = store[id].offered_item_ids

\* The callers whose RPC is in flight through the catalog breaker of w1.
Invoking == {c \in Callers : caller[c].pc = "invoking"}

\* C22: at most one RPC is in flight through the catalog breaker; a breaker
\* is half-open exactly while its probe is in flight; while it is half-open
\* no other caller's RPC is invoked, and the step that ends the probe counts
\* its outcome once: a success closes the breaker with the counter at 0, a
\* failure adds one to the counter and opens the breaker at that time.
C22_OneProbeInFlight ==
    [][LET b == breaker["w1"]["catalog"]
           b2 == breaker'["w1"]["catalog"]
       IN  /\ Cardinality(Invoking') <= 1
           /\ b2.state = "half_open" => Cardinality(Invoking') = 1
           /\ b.state = "half_open" =>
                 /\ Invoking' \subseteq Invoking
                 /\ b2 # b =>
                       /\ Invoking' = {}
                       /\ \/ /\ b2 = [b EXCEPT !.state = "closed",
                                               !.counter = 0]
                             /\ rpcFails'["w1"] = 0
                          \/ /\ b2 = [state |-> "open",
                                      counter |-> b.counter + 1,
                                      openedAt |-> now]
                             /\ rpcFails'["w1"] = rpcFails["w1"] + 1]_vars

\* The probe of one request is in flight while another request waits.
C22_Witness ==
    /\ breaker["w1"]["catalog"].state = "half_open"
    /\ \E c, d \in Callers :
          /\ caller[c].pc = "invoking"
          /\ caller[d].pc = "waiting"

\* The update or delete request of w is rejected in this step.
RejectStep(w) ==
    /\ req[w].pc \in {"idle", "commit"}
    /\ req'[w] # req[w]
    /\ req'[w].pc = "idle"
    /\ req'[w].code \in {"not_found", "unauthorized", "invalid_transition"}

\* C31: a status update that the row it read does not allow is rejected, and
\* the step that rejects a request (not found, unauthorized, invalid
\* transition) leaves every row of the store as it was and makes no attempt
\* of a notification or a chat room: the request is over, and no breaker and
\* no delivery count has moved.
C31_RejectedUpdateChangesNothing ==
    [][\A w \in Workers :
        /\ (CommitStep(w)
              /\ ~Allowed(req[w].offer.status,
                          Role(req[w].offer, req[w].user_id),
                          req[w].new_status)) => RejectStep(w)
        /\ RejectStep(w) =>
              /\ store' = store
              /\ breaker' = breaker
              /\ httpFails' = httpFails
              /\ \A v \in Workers \ {w} : req'[v] = req[v]]_vars

\* A request was rejected as an invalid transition after the offer had been
\* accepted: the offer is as the accept left it, stamped at the earlier time.
C31_Witness ==
    \E w \in Workers : \E id \in DOMAIN store :
        /\ req[w].pc = "idle"
        /\ req[w].code = "invalid_transition"
        /\ store[id].status = "accepted"
        /\ store[id].responded_at = 0
        /\ now = TickLen

\* The waits inserted after the failed attempts 1..n of a call.
WaitsAfter(n) == [k \in 1..n |-> Min2(10, 1 * Pow2(k - 1))]

\* The answer to an attempt of the notification or chat-room post of w makes
\* tenacity schedule the next attempt in this step.
RetryStep(w) ==
    /\ req[w].pc \in {"notify", "chat"}
    /\ req'[w].pc = req[w].pc
    /\ req'[w].attempt = req[w].attempt + 1

\* An attempt of the notification or chat-room post of w that tenacity
\* scheduled begins in this step.
RetriedStep(w) ==
    /\ SideEffectStep(w)
    /\ req[w].step = "call"
    /\ req[w].attempt > 1

\* C34: the wait after failed attempt n is min(10, 2^(n-1)) seconds and never
\* more than 10.  A call of the catalog that made a attempts waited after
\* each attempt but the last, 1 s after the first and 2 s after the second,
\* and the clock has moved by these waits when the call returns.  A
\* notification or chat-room post that failed at attempt n is repeated that
\* long after the failure and not before; no other step of a post waits:
\* the first attempt is made at once and the post is over with the answer
\* to its last attempt.
C34_ExponentialWaits ==
    [][/\ \A n \in 1..MaxWaitAttempt :
             /\ WaitExponential(n) = Min2(10, 1 * Pow2(n - 1))
             /\ WaitExponential(n) <= 10
       /\ \A w \in Workers :
             CatalogCall(w) =>
                 /\ lastCreate'.attempts >= 1
                 /\ lastCreate'.waits = WaitsAfter(lastCreate'.attempts - 1)
                 /\ Len(lastCreate'.waits) <= MaxAttempts - 1
                 /\ lastCreate'.took = Elapsed(lastCreate'.waits)
       /\ \A w \in Workers :
             (AttemptStep(w) /\ blocked'[w].pc = "sleeping") =>
                 /\ blocked'[w].waits = WaitsAfter(blocked'[w].attempt - 1)
                 /\ blocked'[w].wake
                        = now' + WaitExponential(blocked'[w].attempt - 1)
                 /\ blocked'[w].wake
                        = blocked'[w].started + Elapsed(blocked'[w].waits)
       /\ \A w \in Workers :
             /\ RetryStep(w) =>
                   /\ req[w].attempt < MaxAttempts
                   /\ req[w].step = "answer"
                   /\ req'[w].step = "call"
                   /\ req'[w].wake
                          = now + Min2(10, 1 * Pow2(req[w].attempt - 1))
                   /\ now' = now
             /\ RetriedStep(w) =>
                   /\ now' >= req[w].wake
                   /\ now' = Max2(now, req[w].wake)
             /\ (SideEffectStep(w) /\ ~RetriedStep(w)) => now' = now]_vars

\* The catalog failed twice and then answered; later the notification of
\* the accept failed twice as well, and its third attempt was made two
\* seconds after the second and three seconds after the first.
C34_Witness ==
    \E w \in Workers :
        /\ lastCreate.rpc = "ok"
        /\ lastCreate.waits = <<1, 2>>
        /\ req[w].pc = "notify"
        /\ req[w].attempt = MaxAttempts
        /\ req[w].step = "post"
        /\ req[w].wake = 2 * Elapsed(<<1, 2>>)
        /\ now = req[w].wake

\* Worker w calls get_item in this step.
GetCall(w) ==
    /\ lastGet'.seq = lastGet.seq + 1
    /\ lastGet'.worker = w
    /\ lastGet'.op = "get"

\* C35: a NOT_FOUND answer to get_item through a closed breaker is not a
\* failure: get_item returns None after that one invocation and the catalog
\* breaker is as it was, closed with the same counter.
C35_NotFoundIsNotAFailure ==
    [][\A w \in Workers :
        (GetCall(w) /\ breaker[w]["catalog"].state = "closed"
            /\ lastGet'.first = "not_found") =>
                /\ lastGet'.status = "none"
                /\ lastGet'.calls = 1
                /\ lastGet'.attempts = 1
                /\ breaker'[w]["catalog"] = breaker[w]["catalog"]]_vars

\* C32: a creation request whose handler has started its call of the
\* catalog eventually gets its result, whatever the catalog does.
C32_EveryRequestReturns ==
    \A c \in Callers :
        (caller[c].pc \in {"invoking", "sleeping"}) ~> (caller[c].pc = "idle")

\* C33: when the catalog has recovered and requests keep arriving, an open
\* catalog breaker is closed again in the end.
C33_BreakerRecloses ==
    (breaker["w1"]["catalog"].state = "open")
        ~> (breaker["w1"]["catalog"].state = "closed")

\* The breaker that the fifth failure had opened, after the waits of the
\* retries before it, is closed again: the probe of a request was admitted
\* after the reset timeout and succeeded.
C33_Witness ==
    /\ breaker["w1"]["catalog"].state = "closed"
    /\ breaker["w1"]["catalog"].counter = 0
    /\ breaker["w1"]["catalog"].openedAt > 0
    /\ now >= breaker["w1"]["catalog"].openedAt + ResetTimeout
    /\ \E c \in Callers :
          /\ caller[c].pc = "idle"
          /\ caller[c].result = "ok"
          /\ caller[c].attempt = 1

====
